---- MODULE Spec2Model ----
(***************************************************************************)
(* A model of the physical page-frame allocators, the spin-lock mutexes,   *)
(* the recursive-mapping address-space mapper, the ACPI table reader, the  *)
(* I/O APIC registers and the address and bit helpers of learnos.          *)
(*                                                                         *)
(* The module holds several state machines, one per subsystem.  Each has   *)
(* its own variables, its own initial predicate and next-state relation    *)
(* and its own specification; a specification leaves the variables of the  *)
(* other subsystems at their idle values.                                  *)
(*                                                                         *)
(*   SpecPfa    kmem: PageFrameTable + SlowPageFrameAllocator              *)
(*   SpecMutex  the two spin-lock mutexes (spinlock crate, kernel spin)    *)
(*   SpecGpa    learnos_kernel: the global BumpAllocator behind its Mutex  *)
(*   SpecMap    kmem: CurrentRecursiveMapping, one core                    *)
(*   SpecMapConc   the same with two cores mapping at once                 *)
(*   SpecBump   kmem: BumpAllocator                                        *)
(*   SpecAcpi   acpi: table validation, Rsdp::find, the table iterators    *)
(*   SpecMadtLive  one iteration over the entries of a MADT, with the loop *)
(*              that calls next() kept running                             *)
(*   SpecUtil   the pure helpers: page table entries, frame regions,       *)
(*              alignment, the direct mapping, the addresses of the page   *)
(*              tables, bit ranges, the making of the page frame table     *)
(*   SpecIoApic amd64: the redirection entries of the I/O APIC             *)
(***************************************************************************)
EXTENDS Integers, Sequences, FiniteSets, TLC

VARIABLES
    page_frame_table,   \* SlowPageFrameAllocator.page_frame_table: frame -> state
    owner,              \* ghost: what the callers hold of each frame
    last,               \* ghost: the last call, its arguments, result and pre-state
    halted,             \* a panic (failed assert) has stopped the kernel
    locked,             \* Mutex.locked of every mutex (AtomicBool)
    guards,             \* the live MutexGuards: core -> mutex -> how many
    mlast,              \* ghost: the last completed mutex call
    global_allocator,   \* GLOBAL_PAGE_FRAME_ALLOCATOR: Option<BumpAllocator>
    cpu,                \* per core: where it is in init / alloc_frame / free_frame
    returned,           \* ghost: how often alloc_frame has returned each frame
    mem,                \* physical memory: frame -> index -> page table entry
    mp,                 \* per core: where it is in CurrentRecursiveMapping::map
    mapped,             \* ghost: the map calls that returned Ok
    others,             \* ghost: frames other users of the allocator hold
    rlast,              \* ghost: the last resolve call and what it returned
    bump_allocator,     \* kmem BumpAllocator: current_region and the regions left
    bhist,              \* ghost: the regions supplied, the calls made, the last call
    acpi_mem,           \* the bytes of the memory the ACPI tables are read from
    acpi_call,          \* ghost: the last call of the ACPI crate and what it returned
    sdt_iter,           \* RsdtPointerIter / XsdtPointerIter: current, last (+ ghost)
    madt_iter,          \* MadtHeaderIter: current, last (+ ghost)
    ucall,              \* the last call of a pure helper function, its arguments and its result
    ioapic,             \* I/O APIC: the register selected and the indexed registers
    iohist              \* ghost: the last call on the I/O APIC, the registers before it, the entries set

pfaVars == <<page_frame_table, owner, last, halted>>
mutexVars == <<locked, guards, mlast>>
gpaVars == <<global_allocator, cpu, returned>>
mapVars == <<mem, mp, mapped, others, rlast>>
bumpVars == <<bump_allocator, bhist>>
acpiVars == <<acpi_mem, acpi_call, sdt_iter, madt_iter>>
utilVars == <<ucall>>
ioApicVars == <<ioapic, iohist>>

vars == <<page_frame_table, owner, last, halted, locked, guards, mlast,
          global_allocator, cpu, returned, mem, mp, mapped, others, rlast,
          bump_allocator, bhist, acpi_mem, acpi_call, sdt_iter, madt_iter,
          ucall,
          ioapic, iohist>>

\* What the page frame table's calls leave alone.
nonPfaVars == <<mutexVars, gpaVars, mapVars, bumpVars, acpiVars,
                utilVars,
                ioApicVars>>

\* What the mutex calls leave alone.
nonMutexVars == <<pfaVars, gpaVars, mapVars, bumpVars, acpiVars,
                utilVars,
                ioApicVars>>

\* What the global allocator's calls leave alone.
nonGpaVars == <<page_frame_table, owner, last, guards, mlast, mapVars, bumpVars,
                acpiVars,
                utilVars,
                ioApicVars>>

\* What the calls of the address space leave alone.
nonMapVars == <<owner, last, mutexVars, gpaVars, bumpVars, acpiVars,
                utilVars,
                ioApicVars>>

\* What the calls of the kmem bump allocator leave alone.
nonBumpVars == <<pfaVars, mutexVars, gpaVars, mapVars, acpiVars,
                utilVars,
                ioApicVars>>

\* What the calls of the ACPI crate leave alone.
nonAcpiVars == <<pfaVars, mutexVars, gpaVars, mapVars, bumpVars,
                utilVars,
                ioApicVars>>

\* What the calls of the pure helper functions leave alone.
nonUtilVars == <<pfaVars, mutexVars, gpaVars, mapVars, bumpVars,
                acpiVars,
                ioApicVars>>

\* What the calls of the I/O APIC leave alone.
nonIoApicVars == <<pfaVars, mutexVars, gpaVars, mapVars, bumpVars,
                acpiVars, utilVars>>

(***************************************************************************)
(* Bounds of the model.                                                    *)
(***************************************************************************)
\* Number of page frames the page frame table manages (PageFrameTable.length).
NumFrames == 4

(***************************************************************************)
(* Option<T>                                                               *)
(***************************************************************************)
None == [some |-> FALSE, val |-> 0]
Some(x) == [some |-> TRUE, val |-> x]

(***************************************************************************)
(* kmem::physical::mgmt                                                    *)
(***************************************************************************)
\* enum PageFrameState
PageFrameState == {"Free", "Allocated", "Reserved"}

\* PageFrameTable.length
length == NumFrames

FrameIdx == 0 .. (length - 1)

\* PageFrameTable::from_addr: every entry is written as Free.
from_addr == [i \in FrameIdx |-> "Free"]

\* PageFrameRegion { start, end }
PageFrameRegion(s, e) == [start |-> s, end |-> e]

\* The frames start .. end-1 a `for i in region.start.0 .. region.end.0` visits.
RegionFrames(r) == {i \in r.start .. (r.end - 1) : TRUE}

\* The assert of region_iter_mut, evaluated when the iterator is built.
region_iter_ok(r) == r.start < length /\ r.end <= length

\* One pass of a `for entry in region { assert!(ok(entry)); entry.state = to }`
\* loop over the frames i .. end-1 of table t.  The loop stops at the first
\* frame that fails its assert; the frames before it have been written.
\* The result is the table and whether the loop panicked.
RECURSIVE MarkLoop(_, _, _, _, _)
MarkLoop(t, i, e, bad, to) ==
    IF i >= e THEN [table |-> t, panic |-> FALSE]
    ELSE IF i >= length THEN [table |-> t, panic |-> TRUE]
    ELSE IF t[i] \in bad THEN [table |-> t, panic |-> TRUE]
    ELSE MarkLoop([t EXCEPT ![i] = to], i + 1, e, bad, to)

\* mutant: mark_allocated without its assert, overwriting Reserved frames
mark_allocated_NoAssert(t, r) ==
    IF ~region_iter_ok(r) THEN [table |-> t, panic |-> TRUE]
    ELSE MarkLoop(t, r.start, r.end, {}, "Allocated")

\* PageFrameTable::mark_allocated: assert!(entry.state != Reserved)
mark_allocated(t, r) ==
    IF ~region_iter_ok(r) THEN [table |-> t, panic |-> TRUE]
    ELSE MarkLoop(t, r.start, r.end, {"Reserved"}, "Allocated")

\* PageFrameTable::mark_reserved: assert!(entry.state != Allocated)
mark_reserved(t, r) ==
    IF ~region_iter_ok(r) THEN [table |-> t, panic |-> TRUE]
    ELSE MarkLoop(t, r.start, r.end, {"Allocated"}, "Reserved")

(***************************************************************************)
(* kmem::physical::alloc::slow                                             *)
(***************************************************************************)
\* The scan of SlowPageFrameAllocator::alloc: the first i in i .. length-1
\* whose entry is Free, or None.
RECURSIVE AllocScan_NotAllocated(_, _)
\* mutant: the scan takes every frame that is not Allocated, Reserved ones too
AllocScan_NotAllocated(t, i) ==
    IF i >= length THEN None
    ELSE IF t[i] # "Allocated" THEN Some(i)
    ELSE AllocScan_NotAllocated(t, i + 1)

RECURSIVE AllocScan(_, _)
AllocScan(t, i) ==
    IF i >= length THEN None
    ELSE IF t[i] = "Free" THEN Some(i)
    ELSE AllocScan(t, i + 1)

\* mutant: alloc returns the frame and forgets to flip it to Allocated
alloc_NoFlip(t) == [ret |-> AllocScan(t, 0), table |-> t]

\* SlowPageFrameAllocator::alloc: result and table afterwards.
alloc(t) ==
    LET r == AllocScan(t, 0)
    IN  IF r.some THEN [ret |-> r, table |-> [t EXCEPT ![r.val] = "Allocated"]]
        ELSE [ret |-> None, table |-> t]

\* mutant: free without its assert_eq, freeing whatever state the frame has
free_NoAssert(t, f) ==
    IF f >= length THEN [table |-> t, panic |-> TRUE]
    ELSE [table |-> [t EXCEPT ![f] = "Free"], panic |-> FALSE]

\* SlowPageFrameAllocator::free: assert_eq!(entry.state, Allocated).
\* index_mut asserts frame.0 < length first.
free(t, f) ==
    IF f >= length THEN [table |-> t, panic |-> TRUE]
    ELSE IF t[f] # "Allocated" THEN [table |-> t, panic |-> TRUE]
    ELSE [table |-> [t EXCEPT ![f] = "Free"], panic |-> FALSE]

RECURSIVE RegionScan_NoReset(_, _, _, _)
\* mutant: the running count is not reset by a frame that is not Free
RegionScan_NoReset(t, cur, free_count, page_count) ==
    IF cur < length /\ free_count < page_count
    THEN RegionScan_NoReset(t, cur + 1,
                            IF t[cur] = "Free" THEN free_count + 1 ELSE free_count,
                            page_count)
    ELSE [cur |-> cur, free_count |-> free_count]

\* The while loop of alloc_region: cur and free_count after it.
RECURSIVE RegionScan(_, _, _, _)
RegionScan(t, cur, free_count, page_count) ==
    IF cur < length /\ free_count < page_count
    THEN RegionScan(t, cur + 1,
                    IF t[cur] = "Free" THEN free_count + 1 ELSE 0,
                    page_count)
    ELSE [cur |-> cur, free_count |-> free_count]

\* SlowPageFrameAllocator::alloc_region
alloc_region(t, page_count) ==
    LET s == RegionScan(t, 0, 0, page_count)
    IN  IF s.free_count = page_count
        THEN [ret   |-> Some(PageFrameRegion(s.cur - page_count, s.cur)),
              table |-> [i \in FrameIdx |->
                            IF i \in (s.cur - s.free_count) .. (s.cur - 1)
                            THEN "Allocated" ELSE t[i]]]
        ELSE [ret |-> None, table |-> t]

\* SlowPageFrameAllocator::free_region: each frame is asserted Allocated and
\* set Free in turn, so a panic leaves the frames before it freed.
free_region(t, r) == MarkLoop(t, r.start, r.end, {"Free", "Reserved"}, "Free")

(***************************************************************************)
(* The allocator as a state machine: any sequence of calls.                *)
(***************************************************************************)
OwnerState == {"none", "held", "released", "double"}

\* ghost: a frame handed out by alloc or alloc_region
Acquire(o) == IF o \in {"held", "double"} THEN "double" ELSE "held"
\* ghost: a frame given back by free or free_region
Release(o) == IF o = "held" THEN "released" ELSE o

NoCall == [op |-> "none", arg |-> None, ret |-> None, pre |-> from_addr,
           panic |-> FALSE, again |-> FALSE]

\* A call is made when the kernel runs and the previous result has been taken.
Ready == ~halted /\ last.op = "none"

PfaInit ==
    /\ page_frame_table = from_addr
    /\ owner = [i \in FrameIdx |-> "none"]
    /\ last = NoCall
    /\ halted = FALSE

Alloc ==
    /\ Ready
    /\ UNCHANGED nonPfaVars
    /\ LET a == alloc(page_frame_table)
       IN  /\ page_frame_table' = a.table
           /\ owner' = IF a.ret.some
                       THEN [owner EXCEPT ![a.ret.val] = Acquire(@)]
                       ELSE owner
           /\ last' = [op |-> "alloc", arg |-> None, ret |-> a.ret,
                       pre |-> page_frame_table, panic |-> FALSE,
                       again |-> a.ret.some /\ owner[a.ret.val] = "released"]
    /\ UNCHANGED halted

Free ==
    /\ Ready
    /\ UNCHANGED nonPfaVars
    /\ \E f \in 0 .. length :
         LET a == free(page_frame_table, f)
         IN  /\ page_frame_table' = a.table
             /\ owner' = IF a.panic THEN owner
                         ELSE [owner EXCEPT ![f] = Release(@)]
             /\ last' = [op |-> "free", arg |-> Some(f), ret |-> None,
                         pre |-> page_frame_table, panic |-> a.panic,
                         again |-> FALSE]
             /\ halted' = a.panic

AllocRegion ==
    /\ Ready
    /\ UNCHANGED nonPfaVars
    /\ \E n \in 0 .. (length + 1) :
         LET a == alloc_region(page_frame_table, n)
         IN  /\ page_frame_table' = a.table
             /\ owner' = IF a.ret.some
                         THEN [i \in FrameIdx |->
                                 IF i \in RegionFrames(a.ret.val)
                                 THEN Acquire(owner[i]) ELSE owner[i]]
                         ELSE owner
             /\ last' = [op |-> "alloc_region", arg |-> Some(n), ret |-> a.ret,
                         pre |-> page_frame_table, panic |-> FALSE,
                         again |-> /\ a.ret.some
                                   /\ \E i \in RegionFrames(a.ret.val) :
                                         owner[i] = "released"]
    /\ UNCHANGED halted

\* The regions a caller may pass: every region up to one frame past the table,
\* and the inverted regions whose start is one above their end.
Regions == {r \in {PageFrameRegion(s, e) : s \in 0 .. length, e \in 0 .. (length + 1)} :
               r.start <= r.end + 1}

FreeRegion ==
    /\ Ready
    /\ UNCHANGED nonPfaVars
    /\ \E r \in Regions :
         LET a == free_region(page_frame_table, r)
         IN  /\ page_frame_table' = a.table
             /\ owner' = [i \in FrameIdx |->
                            IF page_frame_table[i] # a.table[i]
                            THEN Release(owner[i]) ELSE owner[i]]
             /\ last' = [op |-> "free_region", arg |-> Some(r), ret |-> None,
                         pre |-> page_frame_table, panic |-> a.panic,
                         again |-> FALSE]
             /\ halted' = a.panic

MarkAllocated ==
    /\ Ready
    /\ UNCHANGED nonPfaVars
    /\ \E r \in Regions :
         LET a == mark_allocated(page_frame_table, r)
         IN  /\ page_frame_table' = a.table
             /\ last' = [op |-> "mark_allocated", arg |-> Some(r), ret |-> None,
                         pre |-> page_frame_table, panic |-> a.panic,
                         again |-> FALSE]
             /\ halted' = a.panic
    /\ UNCHANGED owner

MarkReserved ==
    /\ Ready
    /\ UNCHANGED nonPfaVars
    /\ \E r \in Regions :
         LET a == mark_reserved(page_frame_table, r)
         IN  /\ page_frame_table' = a.table
             /\ last' = [op |-> "mark_reserved", arg |-> Some(r), ret |-> None,
                         pre |-> page_frame_table, panic |-> a.panic,
                         again |-> FALSE]
             /\ halted' = a.panic
    /\ UNCHANGED owner

\* The caller takes the result of the last call.
Return ==
    /\ ~halted
    /\ last.op # "none"
    /\ UNCHANGED nonPfaVars
    /\ last' = NoCall
    /\ UNCHANGED <<page_frame_table, owner, halted>>

PfaNext ==
    \/ Return
    \/ Alloc
    \/ Free
    \/ AllocRegion
    \/ FreeRegion
    \/ MarkAllocated
    \/ MarkReserved


(***************************************************************************)
(* Claims about the page frame table and the slow allocator (SpecPfa).     *)
(***************************************************************************)
Min(S) == CHOOSE x \in S : \A y \in S : x <= y

FreeIn(t) == {i \in FrameIdx : t[i] = "Free"}

\* C1: across any sequence of alloc, free, alloc_region and free_region calls
\* no frame is handed out while a caller still holds it: every frame has at
\* most one outstanding owner.
C1_AtMostOneOwner == \A i \in FrameIdx : owner[i] # "double"

\* C1 witness: alloc or alloc_region has handed out a frame again that an
\* earlier caller held and freed.
C1_Witness ==
    /\ last.op \in {"alloc", "alloc_region"}
    /\ last.again
    /\ \E i \in FrameIdx : owner[i] = "held" /\ last.pre[i] = "Free"

\* The state changes a frame may go through.
LegalTransitions ==
    {<<"Free", "Allocated">>, <<"Free", "Reserved">>, <<"Allocated", "Free">>}

\* C2: every change of a frame's state made by any call on the table is
\* Free->Allocated, Free->Reserved or Allocated->Free; a Reserved frame never
\* changes again.
C2_LegalTransitions ==
    [][\A i \in FrameIdx :
          page_frame_table'[i] # page_frame_table[i]
              => <<page_frame_table[i], page_frame_table'[i]>> \in LegalTransitions]_vars

\* C2 witness: mark_allocated ran into a Reserved frame, and alloc found only
\* Reserved frames left; the Reserved frames are still Reserved.
C2_Witness ==
    /\ last.op = "mark_allocated"
    /\ last.panic
    /\ \E i \in FrameIdx :
          /\ last.arg.val.start <= i /\ i < last.arg.val.end
          /\ last.pre[i] = "Reserved"
          /\ page_frame_table[i] = "Reserved"
    /\ \E i \in FrameIdx : last.pre[i] = "Free" /\ page_frame_table[i] = "Allocated"

\* C9: alloc returns the lowest Free frame and flips exactly that frame to
\* Allocated; it returns None and changes nothing exactly when no frame is
\* Free.
C9_AllocFirstFit ==
    last.op = "alloc" =>
        IF FreeIn(last.pre) = {}
        THEN last.ret = None /\ page_frame_table = last.pre
        ELSE /\ last.ret = Some(Min(FreeIn(last.pre)))
             /\ page_frame_table =
                   [last.pre EXCEPT ![Min(FreeIn(last.pre))] = "Allocated"]

\* C9 witness: with every other frame taken, the one frame freed before is
\* what alloc returns, and it is not frame 0.
C9_Witness ==
    /\ last.op = "alloc"
    /\ last.again
    /\ last.ret.some /\ last.ret.val > 0
    /\ FreeIn(last.pre) = {last.ret.val}
    /\ FreeIn(page_frame_table) = {}

\* The starts s of the runs of n Free frames s .. s+n-1 inside the table.
FreeRuns(t, n) ==
    {s \in 0 .. length :
        s + n <= length /\ \A i \in s .. (s + n - 1) : t[i] = "Free"}

\* C10: alloc_region(n) returns the lowest run of n Free frames, flips
\* exactly those frames to Allocated, and returns None, changing nothing,
\* when the table holds no such run.
C10_AllocRegionFirstFit ==
    last.op = "alloc_region" =>
        LET n == last.arg.val
            runs == FreeRuns(last.pre, n)
        IN  IF runs = {}
            THEN last.ret = None /\ page_frame_table = last.pre
            ELSE /\ last.ret = Some(PageFrameRegion(Min(runs), Min(runs) + n))
                 /\ page_frame_table =
                       [i \in FrameIdx |->
                           IF Min(runs) <= i /\ i < Min(runs) + n
                           THEN "Allocated" ELSE last.pre[i]]

\* C10 witness: a region of two or more frames was found behind a Free frame
\* that starts no long enough run.
C10_Witness ==
    /\ last.op = "alloc_region"
    /\ last.arg.val >= 2
    /\ last.ret.some
    /\ last.ret.val.start >= 2
    /\ last.pre[0] = "Free"
    /\ page_frame_table[0] = "Free"

\* C10 witness of the other outcome: Free frames are left, yet no run is long
\* enough and the call returned None.
C10_WitnessNone ==
    /\ last.op = "alloc_region"
    /\ last.ret = None
    /\ Cardinality(FreeIn(last.pre)) >= last.arg.val
    /\ last.arg.val <= length

\* C11: free(f) panics unless frame f is Allocated and free_region(r) panics
\* unless every frame of r is Allocated; when they return, exactly the frames
\* named are Free and no other frame has changed.  A Free or Reserved frame
\* is never freed.
C11_FreeNeedsAllocated ==
    /\ last.op = "free" =>
          LET f == last.arg.val
              ok == f < length /\ last.pre[f] = "Allocated"
          IN  /\ last.panic <=> ~ok
              /\ ~last.panic => page_frame_table = [last.pre EXCEPT ![f] = "Free"]
    /\ last.op = "free_region" =>
          LET r == last.arg.val
              ok == \A i \in RegionFrames(r) : i < length /\ last.pre[i] = "Allocated"
          IN  /\ last.panic <=> ~ok
              /\ ~last.panic =>
                    page_frame_table = [i \in FrameIdx |->
                                          IF i \in RegionFrames(r) THEN "Free"
                                          ELSE last.pre[i]]

\* free_region has returned after freeing two frames or more, next to a frame
\* it left alone.
C11_Witness ==
    /\ last.op = "free_region" /\ ~last.panic
    /\ Cardinality(RegionFrames(last.arg.val)) >= 2
    /\ \E i \in FrameIdx : i \notin RegionFrames(last.arg.val) /\ last.pre[i] # "Free"

\* free has panicked over a Reserved frame.
C11_WitnessFault ==
    /\ last.op = "free" /\ last.panic
    /\ last.arg.val < length /\ last.pre[last.arg.val] = "Reserved"

\* The frames of region r that the table holds in one of the given states.
FramesIn(t, r, states) == {i \in RegionFrames(r) : i < length /\ t[i] \in states}

\* C12: mark_allocated and mark_reserved panic, instead of overwriting, when
\* a frame of the region is in an incompatible state: mark_allocated over a
\* Reserved frame, mark_reserved over an Allocated frame, and mark_reserved
\* over a frame that is Reserved already.
C12_MarkFaults ==
    /\ (last.op = "mark_allocated" /\ FramesIn(last.pre, last.arg.val, {"Reserved"}) # {})
          => last.panic
    /\ (last.op = "mark_reserved"
        /\ FramesIn(last.pre, last.arg.val, {"Allocated", "Reserved"}) # {})
          => last.panic

\* The part of C12 the code keeps: mark_allocated over a Reserved frame and
\* mark_reserved over an Allocated frame panic.
MarkFaultsAsserted ==
    /\ (last.op = "mark_allocated" /\ FramesIn(last.pre, last.arg.val, {"Reserved"}) # {})
          => last.panic
    /\ (last.op = "mark_reserved" /\ FramesIn(last.pre, last.arg.val, {"Allocated"}) # {})
          => last.panic

MarkFaultsAssertedWitness ==
    /\ last.op = "mark_reserved" /\ last.panic
    /\ FramesIn(last.pre, last.arg.val, {"Allocated"}) # {}

(***************************************************************************)
(* The spin-lock mutexes: spinlock (crate) and learnos_kernel::spin.       *)
(***************************************************************************)
\* The cores that run kernel code after SMP bring-up.
Cores == {"bsp", "ap"}

\* One mutex of each implementation, and the kernel's allocator static.
Mutexes == {"spinlock", "spin"}
AllMutexes == Mutexes \cup {"GLOBAL_PAGE_FRAME_ALLOCATOR"}

\* How many guards one core keeps alive at once in the model.
MaxHeld == 2

\* AtomicBool::compare_and_swap(current, new): stores new when the value is
\* current, and returns the previous value.
compare_and_swap(value, current, new) ==
    [prev |-> value, now |-> IF value = current THEN new ELSE value]

\* Mutex::new
Mutex_new == FALSE

\* spinlock::Mutex::try_lock: `if cas(false, true) { None } else { Some(guard) }`
spinlock_try_lock(l) ==
    LET c == compare_and_swap(l, FALSE, TRUE)
    IN  [guard |-> ~c.prev, locked |-> c.now]

\* spinlock::Mutex::lock, one turn of its loop: returns when try_lock gave a guard.
spinlock_lock(l) == spinlock_try_lock(l)

\* learnos_kernel::spin::Mutex::try_lock: `if cas(false, true) { Some(guard) } else { None }`
spin_try_lock(l) ==
    LET c == compare_and_swap(l, FALSE, TRUE)
    IN  [guard |-> c.prev, locked |-> c.now]

\* mutant: a lock that takes the guard whatever the compare-and-swap found
spin_lock_NoWait(l) ==
    LET c == compare_and_swap(l, FALSE, TRUE)
    IN  [guard |-> TRUE, locked |-> c.now]

\* learnos_kernel::spin::Mutex::lock, one turn of `while cas(false, true) { }`:
\* the loop ends, and the guard is built, when the previous value was false.
spin_lock(l) ==
    LET c == compare_and_swap(l, FALSE, TRUE)
    IN  [guard |-> ~c.prev, locked |-> c.now]

try_lock(m, l) == IF m = "spinlock" THEN spinlock_try_lock(l) ELSE spin_try_lock(l)

lock(m, l) == IF m = "spinlock" THEN spinlock_lock(l) ELSE spin_lock(l)

\* impl Drop for MutexGuard: locked.store(false)
drop(l) == FALSE

NoMutexCall == [op |-> "none", mutex |-> "spin", core |-> "bsp",
                pre |-> FALSE, guard |-> FALSE]

MutexInit ==
    /\ locked = [m \in AllMutexes |-> Mutex_new]
    /\ guards = [c \in Cores |-> [m \in Mutexes |-> 0]]
    /\ mlast = NoMutexCall

\* Core c calls m.lock().  A turn of the spin loop that fails changes nothing;
\* the call returns with the turn that builds the guard.
Lock(c, m) ==
    /\ guards[c][m] < MaxHeld
    /\ LET r == lock(m, locked[m])
       IN  /\ r.guard
           /\ locked' = [locked EXCEPT ![m] = r.locked]
           /\ guards' = [guards EXCEPT ![c][m] = @ + 1]
           /\ mlast' = [op |-> "lock", mutex |-> m, core |-> c,
                        pre |-> locked[m], guard |-> TRUE]
    /\ UNCHANGED nonMutexVars

\* Core c calls m.try_lock().
TryLock(c, m) ==
    /\ guards[c][m] < MaxHeld
    /\ LET r == try_lock(m, locked[m])
       IN  /\ locked' = [locked EXCEPT ![m] = r.locked]
           /\ guards' = [guards EXCEPT ![c][m] = IF r.guard THEN @ + 1 ELSE @]
           /\ mlast' = [op |-> "try_lock", mutex |-> m, core |-> c,
                        pre |-> locked[m], guard |-> r.guard]
    /\ UNCHANGED nonMutexVars

\* Core c drops one of its guards of m.
Drop(c, m) ==
    /\ guards[c][m] > 0
    /\ locked' = [locked EXCEPT ![m] = drop(@)]
    /\ guards' = [guards EXCEPT ![c][m] = @ - 1]
    /\ mlast' = [op |-> "drop", mutex |-> m, core |-> c,
                 pre |-> locked[m], guard |-> FALSE]
    /\ UNCHANGED nonMutexVars

MutexNext ==
    \E c \in Cores, m \in Mutexes :
        \/ Lock(c, m)
        \/ TryLock(c, m)
        \/ Drop(c, m)

(***************************************************************************)
(* Claims about the mutexes (SpecMutex).                                   *)
(***************************************************************************)
\* The guards of mutex m that are alive.
LiveGuards(m) == guards["bsp"][m] + guards["ap"][m]

\* The contract of a mutex m.
MutexContract(m) ==
    /\ LiveGuards(m) <= 1
    /\ LiveGuards(m) = 1 => locked[m]
    /\ mlast.mutex = m =>
          /\ mlast.op = "try_lock" => (mlast.guard <=> ~mlast.pre)
          /\ mlast.op = "lock" => ~mlast.pre /\ locked[m]
          /\ mlast.op = "drop" => ~locked[m]

\* C8: for both Mutex implementations at most one guard of a mutex is alive
\* at any time, try_lock returns a guard exactly when the mutex was unlocked,
\* lock returns only once it has acquired, and dropping the guard unlocks.
C8_MutexContract == \A m \in Mutexes : MutexContract(m)

\* The same contract for the spinlock crate alone, which meets it.
C8_SpinlockCrateContract == MutexContract("spinlock")

\* The crate's own test: a second try_lock while the first guard lives gives None.
C8_SpinlockCrateWitness ==
    /\ mlast = [op |-> "try_lock", mutex |-> "spinlock", core |-> "bsp",
                pre |-> TRUE, guard |-> FALSE]
    /\ guards["bsp"]["spinlock"] = 1

(***************************************************************************)
(* learnos_kernel::memory::pfa: the global bump allocator.                 *)
(***************************************************************************)
\* learnos_kernel::memory::PAGE_ALIGN_BITS
PAGE_ALIGN_BITS == 12

\* learnos_kernel::memory::PAGE_SIZE
PAGE_SIZE == 2 ^ PAGE_ALIGN_BITS

\* Alignable::align_up for a power-of-two alignment (num & mask is num % alignment)
align_up(num, alignment) ==
    IF alignment = 0 THEN num
    ELSE num + ((alignment - (num % alignment)) % alignment)

\* Alignable::align_down for a power-of-two alignment
align_down(num, alignment) ==
    IF alignment = 0 THEN num
    ELSE num - (num % alignment)

\* PageFrameNumber::next_above
next_above(addr) == align_up(addr, PAGE_SIZE) \div PAGE_SIZE

\* PageFrameRegion::new_included_in (learnos_kernel::memory)
new_included_in(start, end) ==
    PageFrameRegion(align_up(start, PAGE_SIZE) \div PAGE_SIZE,
                    align_down(end, PAGE_SIZE) \div PAGE_SIZE)

\* page_frames_in_region
page_frames_in_region(region) ==
    new_included_in(region.base_addr, region.base_addr + region.length)

\* The multiboot2 memory map the boot loader hands over: frames 1, 2 available,
\* frame 3 reserved, and an available region that starts inside frame 4 and
\* holds frames 5 and 6.
MemoryMap ==
    << [base_addr |-> 4096, length |-> 8192, available |-> TRUE],
       [base_addr |-> 12288, length |-> 4096, available |-> FALSE],
       [base_addr |-> 18432, length |-> 10240, available |-> TRUE] >>

\* The physical addresses init is given as the end of the kernel image.
KernelEnds == {0, 6144}

\* The frames the memory map speaks of.
GpaFrames ==
    0 .. page_frames_in_region(MemoryMap[Len(MemoryMap)]).end

\* BumpAllocator::new followed by reserve_until_address(base)
BumpAllocator_new(base) ==
    LET reserved_frame_number == next_above(base)
    IN  [next_frame |-> IF reserved_frame_number > 0 THEN reserved_frame_number ELSE 0]

\* BumpAllocator::alloc, the body of its loop for region i: next_frame is
\* raised to the region's start, and the frame is taken when it is below the
\* region's end.
alloc_in_region(next_frame, region) ==
    IF ~region.available THEN [next_frame |-> next_frame, found |-> FALSE]
    ELSE LET region_frames == page_frames_in_region(region)
             nf == IF next_frame < region_frames.start
                   THEN region_frames.start ELSE next_frame
         IN  [next_frame |-> nf, found |-> nf < region_frames.end]

G == "GLOBAL_PAGE_FRAME_ALLOCATOR"

IdleCpu == [pc |-> "idle", op |-> "none", base |-> 0, i |-> 0, frame |-> None]

\* The steps a core takes while it holds the guard of the allocator.
Critical == {"init", "expect", "scan", "bump", "unlock"}

GpaIdle ==
    /\ global_allocator = None
    /\ cpu = [c \in Cores |-> IdleCpu]
    /\ returned = [f \in GpaFrames |-> 0]

GpaInit == GpaIdle

\* Core c enters init(base, regions), alloc_frame() or free_frame(frame).
CallInit(c) ==
    /\ ~halted /\ cpu[c].pc = "idle"
    /\ \E base \in KernelEnds :
          cpu' = [cpu EXCEPT ![c] = [IdleCpu EXCEPT !.pc = "lock", !.op = "init",
                                                    !.base = base]]
    /\ UNCHANGED <<global_allocator, returned, locked, halted>>
    /\ UNCHANGED nonGpaVars

CallAllocFrame(c) ==
    /\ ~halted /\ cpu[c].pc = "idle"
    /\ cpu' = [cpu EXCEPT ![c] = [IdleCpu EXCEPT !.pc = "lock", !.op = "alloc_frame"]]
    /\ UNCHANGED <<global_allocator, returned, locked, halted>>
    /\ UNCHANGED nonGpaVars

CallFreeFrame(c) ==
    /\ ~halted /\ cpu[c].pc = "idle"
    /\ \E f \in GpaFrames : returned[f] > 0
    /\ cpu' = [cpu EXCEPT ![c] = [IdleCpu EXCEPT !.pc = "lock", !.op = "free_frame"]]
    /\ UNCHANGED <<global_allocator, returned, locked, halted>>
    /\ UNCHANGED nonGpaVars

\* GLOBAL_PAGE_FRAME_ALLOCATOR.lock(): the turn of the spin loop that gets the
\* guard; a turn that does not leaves the core where it is.
AcquireGlobal(c) ==
    /\ ~halted /\ cpu[c].pc = "lock"
    /\ LET r == spin_lock(locked[G])
       IN  /\ r.guard
           /\ locked' = [locked EXCEPT ![G] = r.locked]
    /\ cpu' = [cpu EXCEPT ![c].pc = IF cpu[c].op = "init" THEN "init" ELSE "expect"]
    /\ UNCHANGED <<global_allocator, returned, halted>>
    /\ UNCHANGED nonGpaVars

\* init: panics when the allocator is there already, else stores a new one.
InitBody(c) ==
    /\ ~halted /\ cpu[c].pc = "init"
    /\ IF global_allocator.some
       THEN /\ halted' = TRUE
            /\ UNCHANGED <<global_allocator, cpu>>
       ELSE /\ global_allocator' = Some(BumpAllocator_new(cpu[c].base))
            /\ cpu' = [cpu EXCEPT ![c].pc = "unlock"]
            /\ UNCHANGED halted
    /\ UNCHANGED <<returned, locked>>
    /\ UNCHANGED nonGpaVars

\* .as_mut().expect("Memory subsystem not initialized"), and BumpAllocator::free,
\* which always panics.
Expect(c) ==
    /\ ~halted /\ cpu[c].pc = "expect"
    /\ IF ~global_allocator.some \/ cpu[c].op = "free_frame"
       THEN /\ halted' = TRUE
            /\ UNCHANGED cpu
       ELSE /\ cpu' = [cpu EXCEPT ![c].pc = "scan", ![c].i = 1]
            /\ UNCHANGED halted
    /\ UNCHANGED <<global_allocator, returned, locked>>
    /\ UNCHANGED nonGpaVars

\* BumpAllocator::alloc: one turn of `for region in self.regions.clone()`.
ScanRegion(c) ==
    /\ ~halted /\ cpu[c].pc = "scan"
    /\ IF cpu[c].i > Len(MemoryMap)
       THEN /\ cpu' = [cpu EXCEPT ![c].pc = "unlock", ![c].frame = None]
            /\ UNCHANGED global_allocator
       ELSE LET a == alloc_in_region(global_allocator.val.next_frame,
                                     MemoryMap[cpu[c].i])
            IN  /\ global_allocator' = Some([next_frame |-> a.next_frame])
                /\ cpu' = IF a.found
                          THEN [cpu EXCEPT ![c].pc = "bump",
                                           ![c].frame = Some(a.next_frame)]
                          ELSE [cpu EXCEPT ![c].i = @ + 1]
    /\ UNCHANGED <<returned, locked, halted>>
    /\ UNCHANGED nonGpaVars

\* BumpAllocator::alloc: self.next_frame.0 += 1; return Some(allocated_frame)
Bump(c) ==
    /\ ~halted /\ cpu[c].pc = "bump"
    /\ global_allocator' = Some([next_frame |-> global_allocator.val.next_frame + 1])
    /\ cpu' = [cpu EXCEPT ![c].pc = "unlock"]
    /\ UNCHANGED <<returned, locked, halted>>
    /\ UNCHANGED nonGpaVars

\* The guard is dropped at the end of the statement and the call returns.
ReleaseGlobal(c) ==
    /\ ~halted /\ cpu[c].pc = "unlock"
    /\ locked' = [locked EXCEPT ![G] = drop(@)]
    /\ returned' = IF cpu[c].op = "alloc_frame" /\ cpu[c].frame.some
                   THEN [returned EXCEPT ![cpu[c].frame.val] =
                                            IF @ < 2 THEN @ + 1 ELSE @]
                   ELSE returned
    /\ cpu' = [cpu EXCEPT ![c] = [IdleCpu EXCEPT !.op = cpu[c].op,
                                               !.frame = cpu[c].frame]]
    /\ UNCHANGED <<global_allocator, halted>>
    /\ UNCHANGED nonGpaVars

GpaNext ==
    \E c \in Cores :
        \/ CallInit(c)
        \/ CallAllocFrame(c)
        \/ CallFreeFrame(c)
        \/ AcquireGlobal(c)
        \/ InitBody(c)
        \/ Expect(c)
        \/ ScanRegion(c)
        \/ Bump(c)
        \/ ReleaseGlobal(c)

(***************************************************************************)
(* Claims about the global allocator (SpecGpa).                            *)
(***************************************************************************)
\* C7: every alloc_frame runs its whole allocation holding the allocator's
\* lock: no two cores are inside the allocator at once, so next_frame is never
\* updated by two cores at once, and no frame is returned twice.
C7_AllocFrameExclusive ==
    /\ \A f \in GpaFrames : returned[f] <= 1
    /\ \A c \in Cores : cpu[c].pc \in Critical => locked[G]
    /\ \A c1, c2 \in Cores :
          c1 # c2 => ~(cpu[c1].pc \in Critical /\ cpu[c2].pc \in Critical)

\* C7 witness: one core is about to bump next_frame while the other spins in
\* the lock() of its alloc_frame, after two frames have been returned.
C7_Witness ==
    /\ cpu["bsp"].pc = "bump"
    /\ cpu["ap"].pc = "lock" /\ cpu["ap"].op = "alloc_frame"
    /\ \E f1, f2 \in GpaFrames : f1 # f2 /\ returned[f1] = 1 /\ returned[f2] = 1

(***************************************************************************)
(* kmem::paging: the address space behind a recursive mapping.             *)
(*                                                                         *)
(* Addresses are scaled down: a page table has 2^IndexBits entries of      *)
(* 2^EntryBits bytes and fills one page, a virtual address has four table  *)
(* indices and a page offset, and SignBits more bits above them that a     *)
(* canonical address copies from its top index bit.                        *)
(***************************************************************************)
\* Width of a table index in the model (INDEX_BIT_WIDTH is 9 in the source).
IndexBits == 1

\* Bits above the four indices of a virtual address (16 in the source).
SignBits == 2

\* log2 of the size of a page table entry: addresses of entries are masked
\* with 0xFFFF_FFFF_FFFF_FFF8.
EntryBits == 3

INDEX_BIT_WIDTH == IndexBits

\* kmem::PAGE_ALIGN_BITS: a table of 2^INDEX_BIT_WIDTH entries fills a page.
PageBits == INDEX_BIT_WIDTH + EntryBits

\* kmem::PAGE_SIZE
PageSize == 2 ^ PageBits

\* Number of entries of a table (INDEX_MASK + 1)
TableLen == 2 ^ INDEX_BIT_WIDTH

VaBits == 4 * INDEX_BIT_WIDTH + PageBits

\* Level::PT .. Level::PML4
PT == 0
PD == 1
PDP == 2
PML4 == 3

\* Level::child
child(level) == IF level = 0 THEN None ELSE Some(level - 1)

\* Size of the mapping one entry of a table of this level makes.
MappingSize(level) == 2 ^ (PageBits + INDEX_BIT_WIDTH * level)

\* index_at_level: (vaddr >> (12 + INDEX_BIT_WIDTH * level)) & INDEX_MASK
index_at_level(level, vaddr) ==
    (vaddr \div MappingSize(level)) % TableLen

\* CurrentRecursiveMapping.recursive_index: the last slot of the PML4.
recursive_index == TableLen - 1

\* x & CLEAR_PML4_MASK: the PML4 index field of x cleared.
ClearPml4Index(x) ==
    x - ((x \div MappingSize(PML4)) % TableLen) * MappingSize(PML4)

\* set_pml4_index_mask
set_pml4_index_mask == recursive_index * MappingSize(PML4)

\* The loop of entry_at_level: n times addr = ((addr >> 9) & CLEAR) | SET
RECURSIVE ShiftIntoRecursion(_, _)
ShiftIntoRecursion(addr, n) ==
    IF n = 0 THEN addr
    ELSE ShiftIntoRecursion(ClearPml4Index(addr \div TableLen) + set_pml4_index_mask,
                            n - 1)

\* The bits of a canonical upper-half address above its indices.
SignMask == (2 ^ SignBits - 1) * 2 ^ VaBits

\* CurrentRecursiveMapping::entry_at_level
entry_at_level(level, vaddr) ==
    LET shifted == ShiftIntoRecursion(vaddr, level + 1)
        canonical == IF recursive_index >= TableLen \div 2
                     THEN (shifted % 2 ^ VaBits) + SignMask
                     ELSE shifted % 2 ^ VaBits
    IN  canonical - (canonical % 2 ^ EntryBits)

\* CurrentRecursiveMapping::table_at_level
table_at_level(level, vaddr) == align_down(entry_at_level(level, vaddr), PageSize)

\* Alignable::is_aligned
is_aligned(addr, alignment) == align_down(addr, alignment) = addr

(***************************************************************************)
(* Page table entries and physical memory.                                 *)
(***************************************************************************)
\* PageTableEntry::new
PageTableEntry_new == [base |-> 0, flags |-> {}]

\* PageTableEntry::set_base: the address is masked to its page.
set_base(entry, addr) == [entry EXCEPT !.base = addr - (addr % PageSize)]

\* PageTableEntry::set_flags
set_flags(entry, flags) == [entry EXCEPT !.flags = flags]

\* Flags::contains
contains(flags, wanted) == wanted \subseteq flags

\* PageFrame::start_address
start_address(frame) == frame * PageSize

\* The first frame behind the managed ones at which a large page may start.
TargetFrame == ((NumFrames + TableLen - 1) \div TableLen) * TableLen

\* Physical memory: the frames of the page frame table and, behind them, the
\* frames of one large page, which the mappings made point to.
MemFrames == 0 .. (TargetFrame + TableLen - 1)

\* The frame that holds the PML4 (CR3).
Pml4Frame == 0

\* Physical addresses handed to map: the start of the large page and the
\* 4 KiB page behind it.
P0 == start_address(TargetFrame)
P1 == P0 + PageSize

\* What memory nobody has written since boot may hold, read as an entry.
GarbageEntries ==
    { PageTableEntry_new,
      [base |-> P1, flags |-> {"PRESENT", "WRITABLE"}],
      [base |-> P0, flags |-> {"PRESENT", "SIZE"}] }

\* Memory at boot: the PML4 with its recursive entry, everything else stale.
BootMemory(stale) ==
    [f \in MemFrames |->
        [i \in 0 .. (TableLen - 1) |->
            IF f # Pml4Frame THEN stale
            ELSE IF i = recursive_index
                 THEN [base |-> start_address(Pml4Frame),
                       flags |-> {"PRESENT", "WRITABLE"}]
                 ELSE PageTableEntry_new]]

\* The walk the MMU makes for a virtual address, from the table in `frame`
\* at `level`: the word of physical memory it reaches, or a page fault.
RECURSIVE MmuWalk(_, _, _, _)
MmuWalk(m, frame, level, vaddr) ==
    LET e == m[frame][index_at_level(level, vaddr)]
        word == (vaddr % PageSize) \div 2 ^ EntryBits
    IN  IF ~contains(e.flags, {"PRESENT"}) THEN [fault |-> TRUE, frame |-> 0, idx |-> 0]
        ELSE IF level = PT
             THEN [fault |-> FALSE, frame |-> e.base \div PageSize, idx |-> word]
        ELSE IF contains(e.flags, {"SIZE"})
             THEN [fault |-> level = PML4,
                   frame |-> (e.base + (vaddr % MappingSize(level))) \div PageSize,
                   idx |-> word]
        ELSE MmuWalk(m, e.base \div PageSize, level - 1, vaddr)

\* The word a dereference of the pointer vaddr reaches.
Deref(m, vaddr) ==
    LET w == MmuWalk(m, Pml4Frame, PML4, vaddr)
    IN  IF w.fault \/ w.frame \notin MemFrames
        THEN [fault |-> TRUE, frame |-> 0, idx |-> 0]
        ELSE w

\* *ptr for a pointer to a PageTableEntry
ReadEntry(m, vaddr) ==
    LET w == Deref(m, vaddr)
    IN  IF w.fault THEN [fault |-> TRUE, entry |-> PageTableEntry_new]
        ELSE [fault |-> FALSE, entry |-> m[w.frame][w.idx]]

\* *ptr = entry
WriteEntry(m, vaddr, entry) ==
    LET w == Deref(m, vaddr)
    IN  IF w.fault THEN [fault |-> TRUE, mem |-> m]
        ELSE [fault |-> FALSE, mem |-> [m EXCEPT ![w.frame][w.idx] = entry]]

\* util::memset(ptr, PAGE_SIZE, 0) on the page at vaddr
memset(m, vaddr) ==
    LET w == Deref(m, vaddr)
    IN  IF w.fault THEN [fault |-> TRUE, mem |-> m]
        ELSE [fault |-> FALSE,
              mem |-> [m EXCEPT ![w.frame] = [i \in 0 .. (TableLen - 1) |-> PageTableEntry_new]]]

\* The loop of CurrentRecursiveMapping::resolve from current_level on.  Every
\* turn reads the entry at entry_at_level(Level::PT, vaddr).
RECURSIVE ResolveLoop(_, _, _)
ResolveLoop(m, vaddr, current_level) ==
    LET r == ReadEntry(m, entry_at_level(PT, vaddr))
        offset_mask == MappingSize(current_level)
    IN  IF r.fault THEN [fault |-> TRUE, ret |-> None]
        ELSE IF contains(r.entry.flags, {"PRESENT"})
             THEN IF current_level = PT \/ contains(r.entry.flags, {"SIZE"})
                  THEN [fault |-> FALSE,
                        ret |-> Some(r.entry.base + (vaddr % offset_mask))]
                  ELSE ResolveLoop(m, vaddr, child(current_level).val)
        ELSE [fault |-> FALSE, ret |-> None]

\* CurrentRecursiveMapping::resolve
resolve(m, vaddr) == ResolveLoop(m, vaddr, PML4)

(***************************************************************************)
(* CurrentRecursiveMapping::map, one step per access to shared state.      *)
(* No TLB is modelled: every access walks the tables as they are, which is *)
(* what the invalidate_tlb_address calls of the code ask for.              *)
(***************************************************************************)
NoSnapshot == [mem |-> <<>>, table |-> <<>>]

IdleMap == [pc |-> "idle", vaddr |-> 0, paddr |-> 0, target |-> 0, level |-> 0,
            stack |-> <<>>, result |-> "none", old_entry |-> PageTableEntry_new,
            new_table |-> 0, pre |-> NoSnapshot, taken |-> {}, again |-> FALSE]

NoResolve == [op |-> "none", vaddr |-> 0, ret |-> None, fault |-> FALSE]

\* The address space before anything is mapped; frame 0 holds the PML4.
MapBoot(stale) ==
    /\ mem = BootMemory(stale)
    /\ mp = [c \in Cores |-> IdleMap]
    /\ mapped = {}
    /\ others = {}
    /\ rlast = NoResolve

MapIdle == MapBoot(PageTableEntry_new)

MapInit ==
    /\ \E stale \in GarbageEntries : MapBoot(stale)
    /\ page_frame_table = [from_addr EXCEPT ![Pml4Frame] = "Allocated"]
    /\ owner = [i \in FrameIdx |-> "none"]
    /\ last = NoCall
    /\ halted = FALSE

\* A virtual address of the lower half by its PDP, PD and PT index.
VAddr(i2, i1, i0) == i2 * MappingSize(PDP) + i1 * MappingSize(PD) + i0 * MappingSize(PT)

\* The virtual addresses map is called with; the last one is not page aligned.
MapAddrs == {VAddr(0, 0, 0), VAddr(0, 0, 1), VAddr(0, 1, 0), VAddr(1, 0, 0),
             PageSize \div 2}

Levels == {PT, PD, PDP}

AllIdle == \A c \in Cores : mp[c].pc = "idle"

\* map(vaddr, paddr, level, pfa) up to the call of map_impl_rec.  The ghost
\* fields keep the state before the call, and whether an earlier call has
\* mapped vaddr at this level (and this call passes the asserts).
MapCallBody(c, vaddr, paddr, level) ==
    LET required_alignment == MappingSize(level)
        call == [IdleMap EXCEPT !.vaddr = vaddr, !.paddr = paddr, !.target = level,
                                !.pre = [mem |-> mem, table |-> page_frame_table],
                                !.again = /\ is_aligned(paddr, required_alignment)
                                          /\ \E m \in mapped : /\ m.vaddr = vaddr
                                                              /\ m.level = level]
    IN  /\ ~halted /\ mp[c].pc = "idle"
        /\ rlast' = NoResolve
        /\ UNCHANGED <<mem, mapped, others, page_frame_table, nonMapVars>>
        /\ IF level >= 2
           THEN /\ mp' = [mp EXCEPT ![c] = [call EXCEPT !.pc = "done",
                                                        !.result = "InvalidLevel"]]
                /\ UNCHANGED halted
           ELSE IF ~(is_aligned(paddr, required_alignment)
                     /\ is_aligned(vaddr, required_alignment))
           THEN /\ mp' = [mp EXCEPT ![c] = [call EXCEPT !.pc = "panic"]]
                /\ halted' = TRUE
           ELSE /\ mp' = [mp EXCEPT ![c] = [call EXCEPT !.pc = "entry", !.level = PML4]]
                /\ UNCHANGED halted

\* A page fault or a panic in the middle of map stops the kernel.
Stop(c, how) ==
    /\ mp' = [mp EXCEPT ![c].pc = how]
    /\ halted' = TRUE

\* map_impl_rec: the entry of current_level is read and the branch chosen.
MapEntry(c) ==
    /\ ~halted /\ mp[c].pc = "entry"
    /\ UNCHANGED <<mem, mapped, others, rlast, page_frame_table, nonMapVars>>
    /\ LET s == mp[c]
           r == ReadEntry(mem, entry_at_level(s.level, s.vaddr))
           flags == r.entry.flags
       IN  IF r.fault THEN Stop(c, "fault")
           ELSE IF s.level = s.target /\ ~contains(flags, {"PRESENT"})
           THEN mp' = [mp EXCEPT ![c].pc = "leaf"] /\ UNCHANGED halted
           ELSE IF ~contains(flags, {"SIZE", "PRESENT"})
           THEN IF ~child(s.level).some THEN Stop(c, "panic")
                ELSE IF ~contains(flags, {"PRESENT"})
                THEN /\ mp' = [mp EXCEPT ![c].pc = "alloc", ![c].old_entry = r.entry]
                     /\ UNCHANGED halted
                ELSE /\ mp' = [mp EXCEPT ![c].level = child(s.level).val]
                     /\ UNCHANGED halted
           ELSE /\ mp' = [mp EXCEPT ![c].pc = "return", ![c].result = "MappingExists"]
                /\ UNCHANGED halted

\* The entry of the target level is set.
MapLeaf(c) ==
    /\ ~halted /\ mp[c].pc = "leaf"
    /\ UNCHANGED <<mapped, others, rlast, page_frame_table, nonMapVars>>
    /\ LET s == mp[c]
           new_flags == {"PRESENT", "WRITABLE"} \cup (IF s.level > PT THEN {"SIZE"} ELSE {})
           new_entry == set_flags(set_base(PageTableEntry_new, s.paddr), new_flags)
           w == WriteEntry(mem, entry_at_level(s.level, s.vaddr), new_entry)
       IN  IF w.fault THEN Stop(c, "fault") /\ UNCHANGED mem
           ELSE /\ mem' = w.mem
                /\ mp' = [mp EXCEPT ![c].pc = "return", ![c].result = "Ok"]
                /\ UNCHANGED halted

\* pfa.alloc().ok_or(MapError::OutOfMemory)?
MapAlloc(c) ==
    /\ ~halted /\ mp[c].pc = "alloc"
    /\ UNCHANGED <<mem, mapped, others, rlast, halted, nonMapVars>>
    /\ LET a == alloc(page_frame_table)
       IN  /\ page_frame_table' = a.table
           /\ mp' = IF a.ret.some
                    THEN [mp EXCEPT ![c].pc = "install", ![c].new_table = a.ret.val,
                                    ![c].taken = @ \cup {a.ret.val}]
                    ELSE [mp EXCEPT ![c].pc = "return", ![c].result = "OutOfMemory"]

\* The new table is assigned to the entry.
MapInstall(c) ==
    /\ ~halted /\ mp[c].pc = "install"
    /\ UNCHANGED <<mapped, others, rlast, page_frame_table, nonMapVars>>
    /\ LET s == mp[c]
           new_entry == set_flags(set_base(PageTableEntry_new, start_address(s.new_table)),
                                  {"PRESENT", "WRITABLE"})
           w == WriteEntry(mem, entry_at_level(s.level, s.vaddr), new_entry)
       IN  IF w.fault THEN Stop(c, "fault") /\ UNCHANGED mem
           ELSE /\ mem' = w.mem
                /\ mp' = [mp EXCEPT ![c].pc = "memset"]
                /\ UNCHANGED halted

\* The new table is cleared through the recursive mapping, then map_impl_rec
\* calls itself for the child level.
MapMemset(c) ==
    /\ ~halted /\ mp[c].pc = "memset"
    /\ UNCHANGED <<mapped, others, rlast, page_frame_table, nonMapVars>>
    /\ LET s == mp[c]
           child_level == child(s.level).val
           w == memset(mem, table_at_level(child_level, s.vaddr))
           frame == [level |-> s.level, old_entry |-> s.old_entry,
                     new_table |-> s.new_table]
       IN  IF w.fault THEN Stop(c, "fault") /\ UNCHANGED mem
           ELSE /\ mem' = w.mem
                /\ mp' = [mp EXCEPT ![c].pc = "entry", ![c].level = child_level,
                                    ![c].stack = Append(s.stack, frame)]
                /\ UNCHANGED halted

\* mutant: the error path leaves the entry that points to the new table
restore_entry_Skip(m, vaddr, frame) == [fault |-> FALSE, mem |-> m]

\* *entry = old_entry, in the call of map_impl_rec that `frame` stands for
restore_entry(m, vaddr, frame) ==
    WriteEntry(m, entry_at_level(frame.level, vaddr), frame.old_entry)

\* Err(err) reaches a call that allocated a table: *entry = old_entry
MapRestore(c) ==
    /\ ~halted /\ mp[c].pc = "return"
    /\ mp[c].result # "Ok" /\ mp[c].stack # <<>>
    /\ UNCHANGED <<mapped, others, rlast, page_frame_table, nonMapVars>>
    /\ LET s == mp[c]
           top == s.stack[Len(s.stack)]
           w == restore_entry(mem, s.vaddr, top)
       IN  IF w.fault THEN Stop(c, "fault") /\ UNCHANGED mem
           ELSE /\ mem' = w.mem
                /\ mp' = [mp EXCEPT ![c].pc = "free"]
                /\ UNCHANGED halted

\* pfa.free(new_table); Err(err)
MapFree(c) ==
    /\ ~halted /\ mp[c].pc = "free"
    /\ UNCHANGED <<mem, mapped, others, rlast, nonMapVars>>
    /\ LET s == mp[c]
           top == s.stack[Len(s.stack)]
           f == free(page_frame_table, top.new_table)
       IN  /\ page_frame_table' = f.table
           /\ IF f.panic THEN Stop(c, "panic")
              ELSE /\ mp' = [mp EXCEPT ![c].pc = "return",
                                       ![c].stack = SubSeq(s.stack, 1, Len(s.stack) - 1)]
                   /\ UNCHANGED halted

\* map returns: Ok passes through every level, an error once all is undone.
MapDone(c) ==
    /\ ~halted /\ mp[c].pc = "return"
    /\ mp[c].result = "Ok" \/ mp[c].stack = <<>>
    /\ UNCHANGED <<mem, others, rlast, page_frame_table, halted, nonMapVars>>
    /\ mp' = [mp EXCEPT ![c].pc = "done"]
    /\ mapped' = IF mp[c].result = "Ok"
                 THEN mapped \cup {[vaddr |-> mp[c].vaddr, paddr |-> mp[c].paddr,
                                    level |-> mp[c].target]}
                 ELSE mapped

\* The caller has taken the result.
MapAck(c) ==
    /\ ~halted /\ mp[c].pc = "done"
    /\ UNCHANGED <<mem, mapped, others, rlast, page_frame_table, halted, nonMapVars>>
    /\ mp' = [mp EXCEPT ![c] = IdleMap]

\* Between two calls of map somebody else takes a frame from the allocator,
\* or gives one back.
OtherAlloc ==
    /\ ~halted /\ AllIdle
    /\ UNCHANGED <<mem, mp, mapped, rlast, halted, nonMapVars>>
    /\ LET a == alloc(page_frame_table)
       IN  /\ a.ret.some
           /\ page_frame_table' = a.table
           /\ others' = others \cup {a.ret.val}

OtherFree ==
    /\ ~halted /\ AllIdle
    /\ UNCHANGED <<mem, mp, mapped, rlast, nonMapVars>>
    /\ \E frame \in others :
          LET f == free(page_frame_table, frame)
          IN  /\ page_frame_table' = f.table
              /\ halted' = f.panic
              /\ others' = others \ {frame}

\* Offsets into a mapping that resolve is asked about.
Offsets == {0, 2 ^ EntryBits, PageSize}

ResolveAddrs == {v + off : v \in MapAddrs \ {PageSize \div 2}, off \in Offsets}

\* resolve(vaddr), called while no map is under way.
Resolve(vaddr) ==
    /\ ~halted /\ AllIdle
    /\ UNCHANGED <<mem, mp, mapped, others, page_frame_table, nonMapVars>>
    /\ LET r == resolve(mem, vaddr)
       IN  /\ rlast' = [op |-> "resolve", vaddr |-> vaddr, ret |-> r.ret, fault |-> r.fault]
           /\ halted' = r.fault

\* One core maps, resolves and shares the allocator with other users.
MapCall == \E v \in MapAddrs, p \in {P0, P1}, level \in Levels :
              MapCallBody("bsp", v, p, level)

MapStep == \E c \in Cores :
    \/ MapEntry(c)
    \/ MapLeaf(c)
    \/ MapAlloc(c)
    \/ MapInstall(c)
    \/ MapMemset(c)
    \/ MapRestore(c)
    \/ MapFree(c)
    \/ MapDone(c)

MapNext ==
    \/ MapCall
    \/ MapStep
    \/ \E c \in Cores : MapAck(c)
    \/ OtherAlloc
    \/ OtherFree
    \/ \E v \in ResolveAddrs : Resolve(v)

\* Two cores map at the same time: neighbouring pages of level 0, which need
\* the same PDP, PD and PT, none of them there at boot.  Each core calls map
\* once.  Each call of pfa.alloc and pfa.free is one step.
ConcAddr == [c \in Cores |-> IF c = "bsp" THEN VAddr(0, 0, 0) ELSE VAddr(0, 0, 1)]

ConcTarget == [c \in Cores |-> IF c = "bsp" THEN P0 ELSE P1]

MapCallConc == \E c \in Cores : MapCallBody(c, ConcAddr[c], ConcTarget[c], PT)

MapConcNext ==
    \/ MapCallConc
    \/ MapStep

(***************************************************************************)
(* The claims about map and resolve.                                       *)
(***************************************************************************)
\* The frames that hold the page tables of the address space in memory m:
\* what the entries that are PRESENT and not SIZE lead to, from the table in
\* `frame` at `level` down.  The recursive entry leads to the PML4 again.
RECURSIVE TablesFrom(_, _, _)
TablesFrom(m, frame, level) ==
    {frame} \cup
    UNION { LET e == m[frame][i]
            IN  IF level > PT /\ ~(level = PML4 /\ i = recursive_index)
                   /\ contains(e.flags, {"PRESENT"}) /\ ~contains(e.flags, {"SIZE"})
                   /\ (e.base \div PageSize) \in MemFrames
                THEN TablesFrom(m, e.base \div PageSize, level - 1)
                ELSE {}
          : i \in 0 .. (TableLen - 1) }

Tables(m) == TablesFrom(m, Pml4Frame, PML4)

\* The mappings resolve was last asked about: map returned Ok for them and
\* the address lies inside.
Asked == {m \in mapped : /\ rlast.vaddr >= m.vaddr
                         /\ rlast.vaddr < m.vaddr + MappingSize(m.level)}

\* C3: after map(v, p, level, pfa) has returned Ok, for level 0 and for
\* level 1, resolve(v + off) returns p + off for every off smaller than the
\* size of the mapping.
C3_ResolveAfterMap ==
    rlast.op = "resolve" =>
        \A m \in Asked :
            /\ ~rlast.fault
            /\ rlast.ret = Some(m.paddr + (rlast.vaddr - m.vaddr))

\* The part of C3 the code keeps: the same for mappings of level 0 only.
ResolveAfterMapPT ==
    rlast.op = "resolve" =>
        \A m \in Asked :
            m.level = PT =>
                /\ ~rlast.fault
                /\ rlast.ret = Some(m.paddr + (rlast.vaddr - m.vaddr))

\* resolve has been asked about an address inside a mapping of level 0, off
\* its start.
ResolveAfterMapPTWitness ==
    /\ rlast.op = "resolve"
    /\ \E m \in Asked : m.level = PT /\ rlast.vaddr > m.vaddr

\* C4: when map returns an error, every page table entry has the value it
\* had before the call, the same frames hold page tables, and every frame
\* the call took from the allocator is free again.
C4_ErrorLeavesNoTrace ==
    \A c \in Cores :
        (mp[c].pc = "done" /\ mp[c].result # "Ok") =>
            /\ Tables(mem) = Tables(mp[c].pre.mem)
            /\ \A f \in Tables(mem) : mem[f] = mp[c].pre.mem[f]
            /\ page_frame_table = mp[c].pre.table
            /\ \A f \in mp[c].taken : page_frame_table[f] = "Free"

\* map has returned OutOfMemory after it had taken two frames for tables:
\* the allocator ran out two levels below the first new table.
C4_Witness ==
    \E c \in Cores :
        /\ mp[c].pc = "done"
        /\ mp[c].result = "OutOfMemory"
        /\ Cardinality(mp[c].taken) >= 2

\* C5: map for a v that an earlier successful map of the same level has
\* mapped returns Err(MappingExists); it neither panics nor faults, takes no
\* frame and changes no entry.  For level 0 and for level 1.
C5_RemapRefused ==
    \A c \in Cores :
        (mp[c].again /\ mp[c].pc # "idle") =>
            /\ mp[c].pc \notin {"panic", "fault", "leaf", "alloc"}
            /\ mp[c].taken = {}
            /\ mem = mp[c].pre.mem
            /\ mp[c].pc = "done" => mp[c].result = "MappingExists"

\* The part of C5 the code keeps: the same for level 1 only.
RemapRefusedPD ==
    \A c \in Cores :
        (mp[c].again /\ mp[c].pc # "idle" /\ mp[c].target = PD) =>
            /\ mp[c].pc \notin {"panic", "fault", "leaf", "alloc"}
            /\ mp[c].taken = {}
            /\ mem = mp[c].pre.mem
            /\ mp[c].pc = "done" => mp[c].result = "MappingExists"

RemapRefusedPDWitness ==
    \E c \in Cores :
        mp[c].again /\ mp[c].target = PD /\ mp[c].pc = "done"

\* C6: two map calls for different addresses that need the same missing
\* table, run interleaved, are safe: neither panics or faults; once both
\* have returned, the address of every call that returned Ok resolves to
\* its target, and every frame that is Allocated holds a page table that is
\* reachable from the PML4.
C6_InterleavedMapSafe ==
    /\ \A c \in Cores : mp[c].pc \notin {"panic", "fault"}
    /\ (\A c \in Cores : mp[c].pc = "done") =>
          /\ \A c \in Cores :
                mp[c].result = "Ok" =>
                    resolve(mem, mp[c].vaddr) = [fault |-> FALSE, ret |-> Some(mp[c].paddr)]
          /\ \A f \in FrameIdx :
                page_frame_table[f] = "Allocated" => f \in Tables(mem) \cup others

(***************************************************************************)
(* kmem::physical::alloc::bump: the bump allocator over supplied regions.  *)
(***************************************************************************)
\* The highest frame number a supplied region may end at.
BumpFrames == 3

\* PageFrame::next_above: the first frame starting at or above addr
PageFrame_next_above(addr) == align_up(addr, PageSize) \div PageSize

\* PageFrameRegion::is_empty
is_empty(r) == r.start >= r.end

\* current_region.iter().cloned().chain(&mut self.regions): the regions the
\* searches of reserve_until and alloc go through, in order.
Chain(b) ==
    (IF b.current_region.some THEN <<b.current_region.val>> ELSE <<>>) \o b.regions

\* What a search that stops at position k of the chain leaves in the iterator.
Rest(b, k) == SubSeq(Chain(b), k + 1, Len(Chain(b)))

\* BumpAllocator::new
Bump_new(regions) ==
    IF regions = <<>> THEN [current_region |-> None, regions |-> <<>>]
    ELSE [current_region |-> Some(Head(regions)), regions |-> Tail(regions)]

\* mutant: reserve_until keeps the start of the region it finds
Bump_reserve_until_KeepStart(b, reserved_frame_number) ==
    LET found == {k \in 1 .. Len(Chain(b)) : Chain(b)[k].end > reserved_frame_number}
    IN  IF found = {} THEN [current_region |-> None, regions |-> <<>>]
        ELSE [current_region |-> Some(Chain(b)[Min(found)]),
              regions |-> Rest(b, Min(found))]

\* BumpAllocator::reserve_until
Bump_reserve_until(b, reserved_frame_number) ==
    LET found == {k \in 1 .. Len(Chain(b)) : Chain(b)[k].end > reserved_frame_number}
    IN  IF found = {} THEN [current_region |-> None, regions |-> <<>>]
        ELSE LET r == Chain(b)[Min(found)]
                 max == IF r.start >= reserved_frame_number THEN r.start
                        ELSE reserved_frame_number
             IN  [current_region |-> Some([r EXCEPT !.start = max]),
                  regions |-> Rest(b, Min(found))]

\* BumpAllocator::reserve_until_address
Bump_reserve_until_address(b, reserved_address) ==
    Bump_reserve_until(b, PageFrame_next_above(reserved_address))

\* BumpAllocator::alloc: the allocator afterwards and the frame returned
Bump_alloc(b) ==
    LET found == {k \in 1 .. Len(Chain(b)) : ~is_empty(Chain(b)[k])}
    IN  IF found = {}
        THEN [allocator |-> [current_region |-> None, regions |-> <<>>], ret |-> None]
        ELSE LET region == Chain(b)[Min(found)]
                 pf == region.start
             IN  [allocator |-> [current_region |-> Some([region EXCEPT !.start = pf + 1]),
                                 regions |-> Rest(b, Min(found))],
                  ret |-> Some(pf)]

\* The regions a supplier may yield: empty ones included, and the inverted
\* ones whose start is one above their end.
BumpRegions == {r \in {PageFrameRegion(s, e) : s \in 0 .. BumpFrames, e \in 0 .. BumpFrames} :
                   r.start <= r.end + 1}

\* The sequences of regions a supplier may yield, in any order.
RegionSeqs ==
    {<<>>} \cup {<<r>> : r \in BumpRegions}
           \cup {<<r1, r2>> : r1 \in BumpRegions, r2 \in BumpRegions}

\* ghost: nothing called yet on an allocator over the regions supplied.  The
\* fields keep the highest frame returned, the threshold of the last
\* reserve_until and the highest threshold before it, and for an alloc the
\* highest frame returned before it and whether it follows a reserve_until.
NoBumpCall(regions) ==
    [supplied |-> regions, op |-> "new", ret |-> None, panic |-> FALSE,
     max_ret |-> None, threshold |-> None, max_threshold |-> None,
     after_reserve |-> FALSE, prev_max |-> None]

\* The allocator of a kernel that does not use it: no regions.
BumpIdle ==
    /\ bump_allocator = Bump_new(<<>>)
    /\ bhist = NoBumpCall(<<>>)

BumpInit ==
    \E regions \in RegionSeqs :
        /\ bump_allocator = Bump_new(regions)
        /\ bhist = NoBumpCall(regions)

\* max of two Options of frame numbers
MaxOpt(a, b) ==
    IF ~a.some THEN b ELSE IF ~b.some THEN a ELSE IF a.val >= b.val THEN a ELSE b

\* alloc()
BumpAlloc ==
    /\ ~bhist.panic
    /\ UNCHANGED nonBumpVars
    /\ LET a == Bump_alloc(bump_allocator)
       IN  /\ bump_allocator' = a.allocator
           /\ bhist' = [bhist EXCEPT !.op = "alloc", !.ret = a.ret,
                                     !.after_reserve =
                                         bhist.op \in {"reserve_until",
                                                       "reserve_until_address"},
                                     !.prev_max = bhist.max_ret,
                                     !.max_ret = MaxOpt(bhist.max_ret, a.ret)]

\* The ghost fields after a call op that reserves the frames below f; the
\* highest threshold of the earlier calls is kept.
Reserved(op, f) ==
    [bhist EXCEPT !.op = op, !.ret = None,
                  !.after_reserve = FALSE, !.prev_max = None,
                  !.max_threshold = MaxOpt(bhist.max_threshold, bhist.threshold),
                  !.threshold = Some(f)]

\* reserve_until(PageFrame(f))
BumpReserveUntil ==
    /\ ~bhist.panic
    /\ UNCHANGED nonBumpVars
    /\ \E f \in 0 .. (BumpFrames + 1) :
          /\ bump_allocator' = Bump_reserve_until(bump_allocator, f)
          /\ bhist' = Reserved("reserve_until", f)

\* reserve_until_address(PhysAddr(a)), for addresses at and just above the
\* start of a frame
BumpReserveUntilAddress ==
    /\ ~bhist.panic
    /\ UNCHANGED nonBumpVars
    /\ \E f \in 0 .. BumpFrames, d \in {0, 1} :
          LET reserved_address == f * PageSize + d
          IN  /\ bump_allocator' = Bump_reserve_until_address(bump_allocator,
                                                              reserved_address)
              /\ bhist' = Reserved("reserve_until_address",
                                    PageFrame_next_above(reserved_address))

\* free(frame) of the frame alloc returned last:
\* panic!("A bump allocator cannot free")
BumpFree ==
    /\ ~bhist.panic
    /\ bhist.op = "alloc" /\ bhist.ret.some
    /\ UNCHANGED nonBumpVars
    /\ bhist' = [bhist EXCEPT !.op = "free", !.ret = None,
                              !.panic = TRUE]
    /\ UNCHANGED bump_allocator

BumpNext ==
    \/ BumpAlloc
    \/ BumpReserveUntil
    \/ BumpReserveUntilAddress
    \/ BumpFree

\* The walk for vaddr ends at an entry that is not present.
Missing(m, vaddr) == MmuWalk(m, Pml4Frame, PML4, vaddr).fault

\* The walk for vaddr reaches a PT: the PT entry itself can be read.
ReachesPT(m, vaddr) == ~Deref(m, entry_at_level(PT, vaddr)).fault

\* C15: resolve(v) returns None, without a fault, for every v whose
\* translation is missing at some level: the PML4, PDP, PD or PT entry for v
\* is not present.
C15_ResolveMissing ==
    (rlast.op = "resolve" /\ Missing(mem, rlast.vaddr)) =>
        /\ ~rlast.fault
        /\ rlast.ret = None

\* The part of C15 the code keeps: None when only the PT entry is missing.
ResolveMissingPT ==
    (rlast.op = "resolve" /\ Missing(mem, rlast.vaddr) /\ ReachesPT(mem, rlast.vaddr)) =>
        /\ ~rlast.fault
        /\ rlast.ret = None

ResolveMissingPTWitness ==
    /\ rlast.op = "resolve" /\ Missing(mem, rlast.vaddr)
    /\ ReachesPT(mem, rlast.vaddr) /\ mapped # {}

(***************************************************************************)
(* The claims about the bump allocator.                                    *)
(***************************************************************************)
\* The regions come in ascending order and do not overlap.
Ascending(regions) ==
    \A k \in 1 .. Len(regions) :
        /\ regions[k].start <= regions[k].end
        /\ k < Len(regions) => regions[k].end <= regions[k + 1].start

\* The frames that lie in one of the regions.
InRegions(regions) ==
    {x \in 0 .. BumpFrames : \E k \in 1 .. Len(regions) :
                                regions[k].start <= x /\ x < regions[k].end}

\* The lowest frame of a set, if there is one.
Lowest(frames) == IF frames = {} THEN None ELSE Some(Min(frames))

\* What C13 says of the frame alloc has returned last.
AllocMonotone ==
    (bhist.op = "alloc" /\ bhist.ret.some) =>
        /\ bhist.prev_max.some => bhist.ret.val >= bhist.prev_max.val
        /\ bhist.threshold.some => bhist.ret.val >= bhist.threshold.val

\* C13: over any sequence of regions and any interleaving of alloc and
\* reserve_until, alloc never returns a frame below one it returned before,
\* nor a frame below the threshold of the most recent reserve_until.
C13_AllocMonotone == AllocMonotone

\* The part of C13 the code keeps: the same when the regions are supplied in
\* ascending order without overlap.
AllocMonotoneAscending == Ascending(bhist.supplied) => AllocMonotone

AllocMonotoneAscendingWitness ==
    /\ Ascending(bhist.supplied) /\ Len(bhist.supplied) = 2
    /\ bhist.op = "alloc" /\ bhist.ret.some
    /\ bhist.prev_max.some /\ bhist.threshold.some
    /\ bhist.ret.val > bhist.prev_max.val + 1

\* C14: with regions in ascending order without overlap, the alloc that
\* follows reserve_until(f) or reserve_until_address(a), f the first frame
\* at or above a, returns the lowest frame >= f of the supplied regions, and
\* None when they hold no such frame.
C14_AllocAfterReserve ==
    (bhist.op = "alloc" /\ bhist.after_reserve /\ Ascending(bhist.supplied)) =>
        bhist.ret = Lowest({x \in InRegions(bhist.supplied) :
                               x >= bhist.threshold.val})

\* C14 as the code has it: the frame returned is the lowest frame >= f of the
\* supplied regions that is above every frame alloc returned before and not
\* below the threshold of an earlier reserve_until; on an allocator without
\* earlier calls that is the lowest frame >= f.
C14_AllocAfterReserveUnused ==
    (bhist.op = "alloc" /\ bhist.after_reserve /\ Ascending(bhist.supplied)) =>
        bhist.ret = Lowest({x \in InRegions(bhist.supplied) :
                               /\ x >= bhist.threshold.val
                               /\ bhist.prev_max.some => x > bhist.prev_max.val
                               /\ bhist.max_threshold.some =>
                                     x >= bhist.max_threshold.val})

\* alloc has followed a reserve_until whose threshold lies between two
\* regions, on an allocator that had handed out a frame before: the frame
\* returned is the start of the second region.
C14_Witness ==
    /\ bhist.op = "alloc" /\ bhist.after_reserve
    /\ Ascending(bhist.supplied) /\ Len(bhist.supplied) = 2
    /\ bhist.prev_max.some /\ bhist.ret.some
    /\ bhist.supplied[1].end <= bhist.threshold.val
    /\ bhist.threshold.val < bhist.supplied[2].start
    /\ bhist.ret.val = bhist.supplied[2].start

\* The alloc that follows the first call, a reserve_until, of an allocator.
C14_WitnessFresh ==
    /\ bhist.op = "alloc" /\ bhist.after_reserve
    /\ Ascending(bhist.supplied) /\ Len(bhist.supplied) = 2
    /\ ~bhist.prev_max.some /\ ~bhist.max_threshold.some
    /\ bhist.ret = Some(bhist.threshold.val)
    /\ bhist.supplied[1].start < bhist.threshold.val

(***************************************************************************)
(* acpi: the tables the firmware leaves in memory and the code reading     *)
(* them.  Memory is a sequence of bytes; the byte at address a is m[a+1].  *)
(* Every table is read through its raw address, as the code does.          *)
(***************************************************************************)
\* Most pointers an RSDT or XSDT of the model holds.
MaxEntries == 2
\* Most records a MADT of the model holds.
MaxRecords == 2
\* Number of 16-byte slots of the memory range Rsdp::find scans.
FindSlots == 3

\* size_of::<SdtHeader>()
SdtHeaderSize == 36
\* size_of::<Rsdp>()
RsdpSize == 20
\* size_of::<Madt>(), the offset of Madt.records
MadtSize == 44
\* The alignment of the candidates of Rsdp::find.
RsdpAlign == 16
\* Number of bytes of the modelled memory.
MemSize == SdtHeaderSize + RsdpAlign * (MaxEntries + FindSlots)

TableTypes == {"AnySdt", "Rsdp", "Rsdt", "Xsdt", "Madt"}

\* b"RSD PTR "
Rsdp_SIGNATURE == <<82, 83, 68, 32, 80, 84, 82, 32>>
\* b"RSDT"
Rsdt_SIGNATURE == <<82, 83, 68, 84>>
\* b"XSDT"
Xsdt_SIGNATURE == <<88, 83, 68, 84>>
\* b"APIC"
Madt_SIGNATURE == <<65, 80, 73, 67>>

\* The n bytes of memory m from address addr on.
Bytes(m, addr, n) == [i \in 1 .. n |-> m[addr + i]]

\* A little-endian u32 field at address addr.
read_u32(m, addr) ==
    m[addr + 1] + 256 * m[addr + 2] + 65536 * m[addr + 3] + 16777216 * m[addr + 4]

\* acpi_checksum over the slice of `length` bytes at addr: a fold of
\* u8::wrapping_add.
RECURSIVE acpi_checksum(_, _, _)
acpi_checksum(m, addr, len) ==
    IF len = 0 THEN 0
    ELSE (acpi_checksum(m, addr, len - 1) + m[addr + len]) % 256

\* SdtHeader::signature of the table at addr.
SdtHeader_signature(m, addr) == Bytes(m, addr, 4)

\* SdtHeader::length of the table at addr.
SdtHeader_length(m, addr) == read_u32(m, addr + 4)

\* AcpiTable::length of the table of type T at addr.
AcpiTable_length(m, T, addr) ==
    IF T = "Rsdp" THEN RsdpSize ELSE SdtHeader_length(m, addr)

\* util::acpi_table_checksum: the checksum over the self-reported length.
acpi_table_checksum(m, T, addr) == acpi_checksum(m, addr, AcpiTable_length(m, T, addr))

AnySdt_is_valid(m, addr) == acpi_table_checksum(m, "AnySdt", addr) = 0

\* The mutant of Rsdp::is_valid that trusts the signature alone.
Rsdp_is_valid_SignatureOnly(m, addr) == Bytes(m, addr, 8) = Rsdp_SIGNATURE

Rsdp_is_valid(m, addr) ==
    LET sig_valid == Bytes(m, addr, 8) = Rsdp_SIGNATURE
        checksum_valid == acpi_table_checksum(m, "Rsdp", addr) = 0
    IN  sig_valid /\ checksum_valid

Rsdt_is_valid(m, addr) ==
    LET checksum_valid == acpi_table_checksum(m, "Rsdt", addr) = 0
        sig_valid == SdtHeader_signature(m, addr) = Rsdt_SIGNATURE
    IN  checksum_valid /\ sig_valid

Xsdt_is_valid(m, addr) ==
    LET checksum_valid == acpi_table_checksum(m, "Xsdt", addr) = 0
        sig_valid == SdtHeader_signature(m, addr) = Xsdt_SIGNATURE
    IN  checksum_valid /\ sig_valid

Madt_is_valid(m, addr) == acpi_table_checksum(m, "Madt", addr) = 0

\* AcpiTable::is_valid of the table of type T at addr.
is_valid(m, T, addr) ==
    CASE T = "AnySdt" -> AnySdt_is_valid(m, addr)
      [] T = "Rsdp" -> Rsdp_is_valid(m, addr)
      [] T = "Rsdt" -> Rsdt_is_valid(m, addr)
      [] T = "Xsdt" -> Xsdt_is_valid(m, addr)
      [] T = "Madt" -> Madt_is_valid(m, addr)

\* table_from_raw::<T>(table_addr): the reference is the address.
table_from_raw(m, T, table_addr) ==
    IF is_valid(m, T, table_addr) THEN Some(table_addr) ELSE None

\* Madt::from_any of a table that table_from_raw::<AnySdt> accepted.
Madt_from_any(m, addr) ==
    IF SdtHeader_signature(m, addr) = Madt_SIGNATURE THEN Some(addr) ELSE None

\* Rsdp::find(start, end): the loop from `current` on.
RECURSIVE FindLoop(_, _, _)
FindLoop(m, current, end) ==
    IF current < end
    THEN IF Bytes(m, current, 8) = Rsdp_SIGNATURE /\ Rsdp_is_valid(m, current)
         THEN Some(current)
         ELSE FindLoop(m, current + RsdpAlign, end)
    ELSE None

Rsdp_find(m, start, end) == FindLoop(m, align_up(start, RsdpAlign), end)

\* Rsdp::revision
Rsdp_revision(m, addr) == m[addr + 16]

\* RsdpV2::length: the u32 behind the 20 bytes of the first version.
RsdpV2_length(m, addr) == read_u32(m, addr + RsdpSize)

\* Rsdp::as_v2 of the RSDP at addr.
as_v2(m, addr) ==
    IF Rsdp_revision(m, addr) # 2
    THEN IF acpi_checksum(m, addr, RsdpV2_length(m, addr)) = 0
         THEN Some(addr)
         ELSE None
    ELSE None

\* size_of of the pointers of an RSDT (u32) and of an XSDT (u64).
PointerSize(T) == IF T = "Xsdt" THEN 8 ELSE 4

\* Rsdt::num_entries and Xsdt::num_entries: both divide by size_of::<u32>().
num_entries(m, T, addr) == (AcpiTable_length(m, T, addr) - SdtHeaderSize) \div 4

\* No pointer iterator exists.
NoSdtIter ==
    [T |-> "none", table |-> 0, current |-> 0, last |-> 0,
     n |-> 0, done |-> FALSE, again |-> FALSE, ret |-> None, panic |-> FALSE]

\* Rsdt::sdt_pointers / Xsdt::sdt_pointers of the table at addr.
sdt_pointers(m, T, addr) ==
    LET first == addr + SdtHeaderSize
    IN  [NoSdtIter EXCEPT !.T = T, !.table = addr, !.current = first,
                          !.last = first + num_entries(m, T, addr) * PointerSize(T)]

\* `addr as usize` of a pointer of `size` bytes, as the 8 bytes of a usize.
PhysAddr(m, addr, size) == Bytes(m, addr, size) \o [i \in 1 .. (8 - size) |-> 0]

\* RsdtPointerIter::next / XsdtPointerIter::next; n counts the pointers
\* returned, done says that None has been returned, again that next was
\* called after that.
SdtIter_next(m, it) ==
    IF it.current >= it.last
    THEN IF it.current = it.last
         THEN [it EXCEPT !.ret = None, !.done = TRUE, !.again = it.done]
         ELSE [it EXCEPT !.panic = TRUE]
    ELSE [it EXCEPT !.ret = Some(PhysAddr(m, it.current, PointerSize(it.T))),
                    !.current = it.current + PointerSize(it.T),
                    !.n = it.n + 1]

\* No MADT iterator exists.
NoMadtIter ==
    [op |-> "none", table |-> 0, current |-> 0, last |-> 0,
     pre |-> 0, ret |-> None, panic |-> FALSE]

\* Madt::entry_headers of the MADT at addr.
entry_headers(m, addr) ==
    [NoMadtIter EXCEPT !.op = "entry_headers", !.table = addr,
                       !.current = addr + MadtSize,
                       !.last = addr + AcpiTable_length(m, "Madt", addr)]

\* MadtEntryHeader.record_length of the record at addr.
record_length(m, addr) == m[addr + 2]

\* The mutant of MadtHeaderIter::next that ends without the assert.
MadtHeaderIter_next_NoAssert(m, it) ==
    IF it.current >= it.last
    THEN [it EXCEPT !.op = "next", !.pre = it.current, !.ret = None]
    ELSE [it EXCEPT !.op = "next", !.pre = it.current, !.ret = Some(it.current),
                    !.current = it.current + record_length(m, it.current)]

\* MadtHeaderIter::next; pre is the cursor the call found.
MadtHeaderIter_next(m, it) ==
    IF it.current >= it.last
    THEN IF it.current = it.last
         THEN [it EXCEPT !.op = "next", !.pre = it.current, !.ret = None]
         ELSE [it EXCEPT !.op = "next", !.pre = it.current, !.ret = None,
                         !.panic = TRUE]
    ELSE [it EXCEPT !.op = "next", !.pre = it.current, !.ret = Some(it.current),
                    !.current = it.current + record_length(m, it.current)]

(***************************************************************************)
(* The memory images the ACPI code is run on.                              *)
(***************************************************************************)
Zeros(n) == [i \in 1 .. n |-> 0]

\* The n bytes of the little-endian value v.
RECURSIVE LittleEndian(_, _)
LittleEndian(v, n) ==
    IF n = 0 THEN <<>> ELSE <<v % 256>> \o LittleEndian(v \div 256, n - 1)

\* The image followed by zero bytes up to the size of the memory.
Fill(img) == img \o Zeros(MemSize - Len(img))

\* Memory m with the byte at address `at` chosen such that the `len` bytes
\* from addr on add up to sum (mod 256).
WithChecksum(m, addr, len, at, sum) ==
    LET z == [m EXCEPT ![at + 1] = 0]
    IN  [m EXCEPT ![at + 1] = (sum + 256 - acpi_checksum(z, addr, len)) % 256]

\* A system description table at address 0: the header of 36 bytes with the
\* given signature and length, then the payload.
SdtImage(sig, len, payload, sum) ==
    WithChecksum(Fill(sig \o LittleEndian(len, 4) \o Zeros(28) \o payload),
                 0, len, 9, sum)

\* b"FACP"
Fadt_SIGNATURE == <<70, 65, 67, 80>>

\* n pointers of `size` bytes each: 16, 32, ...
Pointers(n, size) ==
    [k \in 1 .. (n * size) |->
        LittleEndian(16 * (((k - 1) \div size) + 1), size)[((k - 1) % size) + 1]]

\* Root tables: RSDTs and XSDTs (and tables of another signature) with up to
\* MaxEntries pointers, with a right and with a wrong checksum.
RootImages ==
    { SdtImage(sig, SdtHeaderSize + n * size, Pointers(n, size), sum) :
        sig \in {Rsdt_SIGNATURE, Xsdt_SIGNATURE, Fadt_SIGNATURE},
        n \in 0 .. MaxEntries, size \in {4, 8}, sum \in {0, 1} }

\* The record lengths of the MADT images.
RecordLengths == {0, 2, 3}

\* Up to MaxRecords record lengths.
RecordSeqs == UNION { [1 .. n -> RecordLengths] : n \in 0 .. MaxRecords }

\* A MADT record: entry_type, record_length, then the body.
Record(len) == <<0, len>> \o Zeros(IF len > 2 THEN len - 2 ELSE 0)

RECURSIVE Records(_)
Records(lens) ==
    IF lens = <<>> THEN <<>> ELSE Record(Head(lens)) \o Records(Tail(lens))

\* MADTs (and tables of another signature): the header, local_apic_address,
\* flags and the records, then two bytes that read as one more record header
\* of length `behind`; the length ends behind the last record, one byte
\* before or one byte behind it, or inside of the MADT's own fields.
MadtImages ==
    { SdtImage(sig, len, Zeros(8) \o Records(lens) \o <<0, behind>>, sum) :
        sig \in {Madt_SIGNATURE, Fadt_SIGNATURE},
        sum \in {0, 1}, behind \in {0, 1},
        <<lens, len>> \in
            UNION { { <<l, MadtSize + Len(Records(l)) + d>> : d \in {-1, 0, 1} }
                    \cup { <<l, MadtSize - 4>> } : l \in RecordSeqs } }

\* What a 16-byte slot of the scanned range holds: nothing, an RSDP, or an
\* RSDP with a wrong checksum.
SlotKinds == {"none", "good", "bad"}

Slot(kind) ==
    IF kind = "none" THEN Zeros(RsdpAlign) ELSE Rsdp_SIGNATURE \o Zeros(8)

RECURSIVE Slots(_)
Slots(kinds) ==
    IF kinds = <<>> THEN <<>> ELSE Slot(Head(kinds)) \o Slots(Tail(kinds))

\* The checksum bytes of the RSDPs of the slots k .. Len(kinds).
RECURSIVE SlotChecksums(_, _, _)
SlotChecksums(m, kinds, k) ==
    IF k > Len(kinds) THEN m
    ELSE LET addr == RsdpAlign * (k - 1)
             fixed == IF kinds[k] = "none" THEN m
                      ELSE WithChecksum(m, addr, RsdpSize, addr + 8,
                                        IF kinds[k] = "good" THEN 0 ELSE 1)
         IN  SlotChecksums(fixed, kinds, k + 1)

\* The memory ranges Rsdp::find scans.
FindImages ==
    { SlotChecksums(Fill(Slots(kinds)), kinds, 1) :
        kinds \in [1 .. FindSlots -> SlotKinds] }

\* The revisions of the RSDPs of the model.
Revisions == 0 .. 3

\* An RSDP of 36 bytes at address 0: the 20 bytes of the first version with
\* the given revision, then length, xsdt_address, extended_checksum and
\* reserved.
RsdpV2Image(revision, len, sum, extended_sum) ==
    LET raw == Fill(Rsdp_SIGNATURE \o Zeros(7) \o <<revision>> \o Zeros(4)
                    \o LittleEndian(len, 4) \o LittleEndian(64, 8) \o Zeros(4))
        v1 == WithChecksum(raw, 0, RsdpSize, 8, sum)
    IN  IF len > 32 THEN WithChecksum(v1, 0, len, 32, extended_sum) ELSE v1

\* RSDPs of every revision, followed by an extension or by zero bytes.
RsdpImages ==
    { RsdpV2Image(r, len, sum, ext) :
        r \in Revisions, len \in {0, 36}, sum \in {0, 1}, ext \in {0, 1} }

AcpiImages == RootImages \cup MadtImages \cup FindImages \cup RsdpImages

(***************************************************************************)
(* The calls of the ACPI crate.                                            *)
(***************************************************************************)
NoAcpiCall ==
    [op |-> "none", T |-> "none", addr |-> 0, start |-> 0, end |-> 0,
     ret |-> None]

\* The ACPI code has not run, on an empty memory.
AcpiIdle ==
    /\ acpi_mem = Zeros(MemSize)
    /\ acpi_call = NoAcpiCall
    /\ sdt_iter = NoSdtIter
    /\ madt_iter = NoMadtIter

AcpiInit ==
    /\ acpi_mem \in AcpiImages
    /\ acpi_call = NoAcpiCall
    /\ sdt_iter = NoSdtIter
    /\ madt_iter = NoMadtIter

\* The addresses tables are looked for at.
TableAddrs == {0}

\* The table of type T at addr lies within the modelled memory.
InMemory(m, T, addr) ==
    /\ addr + SdtHeaderSize <= MemSize
    /\ addr + AcpiTable_length(m, T, addr) <= MemSize

\* table_from_raw::<T>(addr)
TableFromRaw(T, addr) ==
    /\ InMemory(acpi_mem, T, addr)
    /\ acpi_call' = [NoAcpiCall EXCEPT !.op = "table_from_raw", !.T = T,
                        !.addr = addr,
                        !.ret = table_from_raw(acpi_mem, T, addr)]
    /\ UNCHANGED <<acpi_mem, sdt_iter, madt_iter>>
    /\ UNCHANGED nonAcpiVars

\* The bounds Rsdp::find is called with.
FindStarts == {0, 1, RsdpAlign + 1}
FindEnds == {RsdpAlign, RsdpAlign + 1, RsdpAlign * FindSlots}

\* Rsdp::find(start, end)
Find(start, end) ==
    /\ acpi_call' = [NoAcpiCall EXCEPT !.op = "find", !.T = "Rsdp",
                        !.start = start, !.end = end,
                        !.ret = Rsdp_find(acpi_mem, start, end)]
    /\ UNCHANGED <<acpi_mem, sdt_iter, madt_iter>>
    /\ UNCHANGED nonAcpiVars

\* rsdp.as_v2() of the RSDP that table_from_raw or find returned.
AsV2(addr) ==
    /\ Rsdp_is_valid(acpi_mem, addr)
    /\ addr + RsdpSize + 4 <= MemSize
    /\ addr + RsdpV2_length(acpi_mem, addr) <= MemSize
    /\ acpi_call' = [NoAcpiCall EXCEPT !.op = "as_v2", !.T = "Rsdp",
                        !.addr = addr, !.ret = as_v2(acpi_mem, addr)]
    /\ UNCHANGED <<acpi_mem, sdt_iter, madt_iter>>
    /\ UNCHANGED nonAcpiVars

\* table.sdt_pointers() of the RSDT or XSDT that table_from_raw::<T> returned.
SdtPointers(T, addr) ==
    /\ T \in {"Rsdt", "Xsdt"}
    /\ InMemory(acpi_mem, T, addr)
    /\ table_from_raw(acpi_mem, T, addr).some
    /\ AcpiTable_length(acpi_mem, T, addr) >= SdtHeaderSize
    /\ sdt_iter' = sdt_pointers(acpi_mem, T, addr)
    /\ acpi_call' = [NoAcpiCall EXCEPT !.op = "sdt_pointers", !.T = T,
                        !.addr = addr]
    /\ UNCHANGED <<acpi_mem, madt_iter>>
    /\ UNCHANGED nonAcpiVars

\* next() of the pointer iterator.
SdtNext ==
    /\ sdt_iter.T # "none" /\ ~sdt_iter.panic
    /\ ~sdt_iter.again
    /\ sdt_iter' = SdtIter_next(acpi_mem, sdt_iter)
    /\ acpi_call' = [NoAcpiCall EXCEPT !.op = "sdt_next", !.T = sdt_iter.T,
                        !.addr = sdt_iter.table]
    /\ UNCHANGED <<acpi_mem, madt_iter>>
    /\ UNCHANGED nonAcpiVars

\* madt.entry_headers() of the MADT that Madt::from_any returned for a table
\* that table_from_raw::<AnySdt> accepted.
EntryHeaders(addr) ==
    /\ InMemory(acpi_mem, "AnySdt", addr)
    /\ table_from_raw(acpi_mem, "AnySdt", addr).some
    /\ Madt_from_any(acpi_mem, addr).some
    /\ madt_iter' = entry_headers(acpi_mem, addr)
    /\ acpi_call' = [NoAcpiCall EXCEPT !.op = "entry_headers", !.T = "Madt",
                        !.addr = addr]
    /\ UNCHANGED <<acpi_mem, sdt_iter>>
    /\ UNCHANGED nonAcpiVars

\* next() of the MADT iterator.
MadtNext ==
    /\ madt_iter.op # "none" /\ ~madt_iter.panic
    /\ madt_iter' = MadtHeaderIter_next(acpi_mem, madt_iter)
    /\ acpi_call' = [NoAcpiCall EXCEPT !.op = "madt_next", !.T = "Madt",
                        !.addr = madt_iter.table]
    /\ UNCHANGED <<acpi_mem, sdt_iter>>
    /\ UNCHANGED nonAcpiVars

AcpiNext ==
    \/ \E T \in TableTypes, addr \in TableAddrs : TableFromRaw(T, addr)
    \/ \E start \in FindStarts, end \in FindEnds : Find(start, end)
    \/ \E addr \in TableAddrs : AsV2(addr)
    \/ \E T \in {"Rsdt", "Xsdt"}, addr \in TableAddrs : SdtPointers(T, addr)
    \/ SdtNext
    \/ \E addr \in TableAddrs : EntryHeaders(addr)
    \/ MadtNext

(***************************************************************************)
(* Claims about the ACPI tables.                                           *)
(***************************************************************************)
\* The signature a table of type T carries; AnySdt has none of its own.
SIGNATURE(T) ==
    CASE T = "Rsdp" -> Rsdp_SIGNATURE
      [] T = "Rsdt" -> Rsdt_SIGNATURE
      [] T = "Xsdt" -> Xsdt_SIGNATURE
      [] T = "Madt" -> Madt_SIGNATURE
      [] T = "AnySdt" -> <<>>

\* The memory at addr starts with the signature of T.
SignatureMatches(m, T, addr) ==
    Bytes(m, addr, Len(SIGNATURE(T))) = SIGNATURE(T)

\* The first length() bytes of the table of type T at addr add up to zero.
ChecksumIsZero(m, T, addr) ==
    acpi_checksum(m, addr, AcpiTable_length(m, T, addr)) = 0

\* C16: table_from_raw::<T>(addr) returns the table exactly when the wrapping
\* sum of its first length() bytes is zero and, for T one of Rsdp, Rsdt, Xsdt
\* and Madt, the bytes at addr start with the signature of T; it returns None
\* when either fails.
C16_TableFromRawValid ==
    acpi_call.op = "table_from_raw" =>
        (acpi_call.ret.some <=>
            /\ ChecksumIsZero(acpi_mem, acpi_call.T, acpi_call.addr)
            /\ SignatureMatches(acpi_mem, acpi_call.T, acpi_call.addr))

\* The same for every table type but Madt, whose is_valid does not look at
\* the signature.
TableFromRawValidNotMadt ==
    (acpi_call.op = "table_from_raw" /\ acpi_call.T # "Madt") =>
        (acpi_call.ret = IF /\ ChecksumIsZero(acpi_mem, acpi_call.T, acpi_call.addr)
                            /\ SignatureMatches(acpi_mem, acpi_call.T, acpi_call.addr)
                         THEN Some(acpi_call.addr) ELSE None)

\* Each of the four table types with a signature is accepted once and is
\* refused once for its signature alone.
TableFromRawValidNotMadtWitness ==
    /\ acpi_call.op = "table_from_raw" /\ acpi_call.T = "Xsdt"
    /\ ~acpi_call.ret.some
    /\ ChecksumIsZero(acpi_mem, "Xsdt", acpi_call.addr)

\* The 16-byte-aligned addresses of [start, end) that carry the signature
\* "RSD PTR " and whose 20 bytes add up to zero.
Candidates(m, start, end) ==
    { a \in start .. (end - 1) :
        /\ a % RsdpAlign = 0
        /\ Bytes(m, a, 8) = Rsdp_SIGNATURE
        /\ acpi_checksum(m, a, RsdpSize) = 0 }

\* C17: Rsdp::find(start, end) returns the lowest 16-byte-aligned address of
\* [start, end) that carries the signature "RSD PTR " and has a zero
\* checksum, passing over candidates with the signature and a non-zero
\* checksum, and None when there is no such address.
C17_FindFirstValid ==
    acpi_call.op = "find" =>
        LET found == Candidates(acpi_mem, acpi_call.start, acpi_call.end)
        IN  acpi_call.ret = IF found = {} THEN None ELSE Some(Min(found))

\* find returned an RSDP that lies behind one with a wrong checksum.
C17_Witness ==
    /\ acpi_call.op = "find" /\ acpi_call.ret.some
    /\ \E a \in acpi_call.start .. (acpi_call.ret.val - 1) :
          /\ a % RsdpAlign = 0
          /\ Bytes(acpi_mem, a, 8) = Rsdp_SIGNATURE
          /\ acpi_checksum(acpi_mem, a, RsdpSize) # 0

\* find returned None for a range whose only signature has a wrong checksum.
C17_WitnessNone ==
    /\ acpi_call.op = "find" /\ ~acpi_call.ret.some
    /\ \E a \in acpi_call.start .. (acpi_call.end - 1) :
          a % RsdpAlign = 0 /\ Bytes(acpi_mem, a, 8) = Rsdp_SIGNATURE

\* What the claim about the pointer iterators says of an iterator over a
\* table of type T: the k-th pointer returned is the k-th pointer of the
\* table, and None comes, and stays, after (length - 36) / PointerSize(T)
\* pointers.
PointerIteration(T) ==
    sdt_iter.T = T =>
        LET first == sdt_iter.table + SdtHeaderSize
            len == AcpiTable_length(acpi_mem, T, sdt_iter.table)
        IN  /\ ~sdt_iter.panic
            /\ (sdt_iter.ret.some /\ ~sdt_iter.done) =>
                  sdt_iter.ret.val =
                      PhysAddr(acpi_mem, first + (sdt_iter.n - 1) * PointerSize(T),
                               PointerSize(T))
            /\ sdt_iter.done =>
                  /\ ~sdt_iter.ret.some
                  /\ sdt_iter.n = (len - SdtHeaderSize) \div PointerSize(T)

\* C18: Rsdt::sdt_pointers yields exactly (length - 36) / 4 pointers and
\* Xsdt::sdt_pointers exactly (length - 36) / 8, in the order of the table,
\* and after the first None every later next() returns None as well.
C18_PointerCount == PointerIteration("Rsdt") /\ PointerIteration("Xsdt")

\* The part about the RSDT.
PointerCountRsdt == PointerIteration("Rsdt")

\* An iterator over an RSDT with MaxEntries pointers that was asked again
\* after its first None.
PointerCountRsdtWitness ==
    /\ sdt_iter.T = "Rsdt" /\ sdt_iter.again
    /\ sdt_iter.n = MaxEntries

\* The end of the MADT the iterator runs over: its address + length().
MadtEnd == madt_iter.table + AcpiTable_length(acpi_mem, "Madt", madt_iter.table)

C19_WitnessBehind ==
    /\ madt_iter.op = "next" /\ ~madt_iter.panic /\ ~madt_iter.ret.some
    /\ madt_iter.pre = MadtEnd
    /\ record_length(acpi_mem, MadtEnd - 1) = 1
    /\ acpi_mem[MadtEnd + 1] = 1

\* next() returned None on the end of a table of MaxRecords records.
C19_WitnessNone ==
    /\ madt_iter.op = "next" /\ ~madt_iter.panic /\ ~madt_iter.ret.some
    /\ madt_iter.pre = MadtEnd
    /\ madt_iter.pre >= madt_iter.table + MadtSize + 2 * MaxRecords

\* The sum of the bytes of the extended RSDP at addr, over its own length.
ExtendedChecksum(m, addr) == acpi_checksum(m, addr, RsdpV2_length(m, addr))

\* C20: Rsdp::as_v2 returns the extended view only for an RSDP of revision 2
\* or above whose extended checksum is valid, and it returns None for an RSDP
\* of revision 0 or 1.
C20_AsV2NeedsRevision2 ==
    acpi_call.op = "as_v2" =>
        LET revision == Rsdp_revision(acpi_mem, acpi_call.addr)
        IN  /\ acpi_call.ret.some =>
                  /\ revision >= 2
                  /\ ExtendedChecksum(acpi_mem, acpi_call.addr) = 0
            /\ revision \in {0, 1} => ~acpi_call.ret.some

\* What as_v2 does: it returns the extended view exactly for the revisions
\* other than 2 whose extended checksum is valid.
AsV2NotRevision2 ==
    acpi_call.op = "as_v2" =>
        (acpi_call.ret.some <=>
            /\ Rsdp_revision(acpi_mem, acpi_call.addr) # 2
            /\ ExtendedChecksum(acpi_mem, acpi_call.addr) = 0)

\* as_v2 returned None for a valid RSDP of revision 2.
AsV2NotRevision2Witness ==
    /\ acpi_call.op = "as_v2" /\ ~acpi_call.ret.some
    /\ Rsdp_revision(acpi_mem, acpi_call.addr) = 2
    /\ RsdpV2_length(acpi_mem, acpi_call.addr) = 36
    /\ ExtendedChecksum(acpi_mem, acpi_call.addr) = 0

(***************************************************************************)
(* The pure helper functions: page table entries, frame regions, direct    *)
(* mappings, bit ranges and alignment.  ucall holds one call: its          *)
(* arguments, drawn from a bounded set, and once it is made its result.    *)
(***************************************************************************)
NoUtilCall == [op |-> "none", x |-> 0, arg |-> 0, done |-> FALSE, ret |-> 0]

\* No helper function has been called.
UtilIdle == ucall = NoUtilCall


(***************************************************************************)
(* learnos_kernel memory::vmm::page_tables: PageTableEntry(u64).  The      *)
(* 64-bit word is the set of the positions of its one bits.                *)
(***************************************************************************)
U64Bits == 0 .. 63

\* The bits of hex digit d (0 .. 15).
DigitBits(d) == { j \in 0 .. 3 : (d \div (2 ^ j)) % 2 = 1 }

\* The word written as 16 hex digits, most significant digit first.
FromHex(digits) ==
    UNION { { 4 * (16 - i) + j : j \in DigitBits(digits[i]) } : i \in 1 .. 16 }

\* x << k and x >> k on 64 bits.
ShiftLeft(x, k) == { b + k : b \in x } \cap U64Bits
ShiftRight(x, k) == { b - k : b \in x } \cap U64Bits

\* x as u16, x as u8
AsU16(x) == x \cap (0 .. 15)
AsU8(x) == x \cap (0 .. 7)

NO_EXECUTE_BIT == 63
\* 0x000F_FFFF_FFFF_F000
ADDR_MASK == FromHex(<<0, 0, 0, 15, 15, 15, 15, 15, 15, 15, 15, 15, 15, 0, 0, 0>>)
\* 0x7FF8_0000_0000_0000
USER_DATA_HIGH_MASK == FromHex(<<7, 15, 15, 8, 0, 0, 0, 0, 0, 0, 0, 0, 0, 0, 0, 0>>)
\* 0x0000_0000_0000_0E00
USER_DATA_LOW_MASK == FromHex(<<0, 0, 0, 0, 0, 0, 0, 0, 0, 0, 0, 0, 0, 14, 0, 0>>)

Pte_flags(e) == AsU8(e \cap (0 .. 7))

Pte_set_flags(e, flags) == (e \ (0 .. 7)) \cup flags

Pte_check_bit(e, bit) == bit \in e

Pte_set_bit(e, bit, value) == IF value THEN e \cup {bit} ELSE e \ {bit}

Pte_executable(e) == ~Pte_check_bit(e, NO_EXECUTE_BIT)

Pte_set_executable(e, executable) == Pte_set_bit(e, NO_EXECUTE_BIT, ~executable)

Pte_base(e) == e \cap ADDR_MASK

Pte_set_base(e, addr) == (e \ ADDR_MASK) \cup (addr \cap ADDR_MASK)

Pte_user_data(e) ==
    LET high == AsU16(ShiftRight(e \cap USER_DATA_HIGH_MASK, 52 - 3))
        low == AsU16(ShiftRight(e \cap USER_DATA_LOW_MASK, 9))
    IN  high \cup low

Pte_set_user_data(e, user_data) ==
    ((e \ USER_DATA_HIGH_MASK) \ USER_DATA_LOW_MASK)
        \cup (ShiftLeft(user_data, 52 - 3) \cap USER_DATA_HIGH_MASK)
        \cup (ShiftLeft(user_data, 9) \cap USER_DATA_LOW_MASK)

\* The four fields of an entry, as its getters return them.
PteFields(e) ==
    [base |-> Pte_base(e), flags |-> Pte_flags(e),
     executable |-> Pte_executable(e), user_data |-> Pte_user_data(e)]

\* The words the calls on entries are made with: entries, addresses, user
\* data.  0x0008_0F7A_BA02_1000 and 0x3A75 are the values of the unit test.
PteWords ==
    { {}, U64Bits, {0}, {7}, {9}, {11}, {12}, {51}, {52}, {62}, {63},
      FromHex(<<0, 0, 0, 8, 0, 15, 7, 10, 11, 10, 0, 2, 1, 0, 0, 0>>),
      FromHex(<<0, 0, 0, 0, 0, 0, 0, 0, 0, 0, 0, 0, 3, 10, 7, 5>>) }

\* The entries: what one or two setters make of a word.
PteEntries ==
    PteWords \cup { Pte_set_user_data(e, d) : e \in PteWords, d \in {{2}, 0 .. 13} }

\* The arguments of set_base, set_flags and set_user_data (14 bits).
PteBases == PteWords
PteFlags == { {}, {0}, {0, 1}, {0, 2, 7}, 0 .. 7 }
PteUserData == { {}, {0}, {2}, {3}, {13}, 0 .. 13, {0, 2, 4, 5, 6, 9, 11, 12, 13} }

\* The calls on entries that are to be made.
PteCalls ==
    [op : {"set_base"}, x : PteEntries, arg : PteBases, done : {FALSE}, ret : {0}]
    \cup [op : {"set_flags"}, x : PteEntries, arg : PteFlags, done : {FALSE}, ret : {0}]
    \cup [op : {"set_executable"}, x : PteEntries, arg : BOOLEAN, done : {FALSE}, ret : {0}]
    \cup [op : {"set_user_data"}, x : PteEntries, arg : PteUserData, done : {FALSE}, ret : {0}]

\* The call that ucall holds is one of op and has not been made yet.
Pending(op) == ucall.op = op /\ ~ucall.done

\* The call that ucall holds returns ret.
Returns(ret) ==
    /\ ucall' = [ucall EXCEPT !.done = TRUE, !.ret = ret]
    /\ UNCHANGED nonUtilVars

PteSetBase == Pending("set_base") /\ Returns(Pte_set_base(ucall.x, ucall.arg))

PteSetFlags == Pending("set_flags") /\ Returns(Pte_set_flags(ucall.x, ucall.arg))

PteSetExecutable ==
    Pending("set_executable") /\ Returns(Pte_set_executable(ucall.x, ucall.arg))

PteSetUserData ==
    Pending("set_user_data") /\ Returns(Pte_set_user_data(ucall.x, ucall.arg))

PteNext == PteSetBase \/ PteSetFlags \/ PteSetExecutable \/ PteSetUserData

(***************************************************************************)
(* amd64 align and kmem physical: unsigned words of UsizeBits bits.  An    *)
(* addition that overflows panics in a build with overflow checks (debug)  *)
(* and wraps around in one without (release).                              *)
(***************************************************************************)
\* Width of usize in the model.
UsizeBits == 6

UsizeMax == (2 ^ UsizeBits) - 1

Usize == 0 .. UsizeMax

Builds == {"debug", "release"}

\* The result of a call: a value, or a panic.
Ok(v) == [panic |-> FALSE, val |-> v]
Panic == [panic |-> TRUE, val |-> 0]

\* a + b on usize.
UsizeAdd(build, a, b) ==
    IF a + b <= UsizeMax THEN Ok(a + b)
    ELSE IF build = "debug" THEN Panic
    ELSE Ok((a + b) % (2 ^ UsizeBits))

\* alignment & (alignment - 1) == 0
IsPowerOfTwo(alignment) == \E k \in 0 .. UsizeBits : alignment = 2 ^ k

\* The mutant of align_up that always adds the padding.
Usize_align_up_NoMask(build, x, alignment) ==
    IF alignment = 0 THEN Ok(x)
    ELSE IF ~IsPowerOfTwo(alignment) THEN Panic
    ELSE UsizeAdd(build, x, alignment - (x % alignment))

\* Alignable::align_up on usize; for a power of two, x & mask is x % alignment.
Usize_align_up(build, x, alignment) ==
    IF alignment = 0 THEN Ok(x)
    ELSE IF ~IsPowerOfTwo(alignment) THEN Panic
    ELSE LET padding == alignment - (x % alignment)
         IN  UsizeAdd(build, x, padding % alignment)

\* Alignable::align_down on usize.
Usize_align_down(x, alignment) ==
    IF alignment = 0 THEN Ok(x)
    ELSE IF ~IsPowerOfTwo(alignment) THEN Panic
    ELSE Ok(x - (x % alignment))

\* Alignable::is_aligned on usize.
Usize_is_aligned(x, alignment) ==
    LET down == Usize_align_down(x, alignment)
    IN  IF down.panic THEN Panic ELSE Ok(down.val = x)

\* kmem PageFrameRegion::new_included_in of the byte range [s, e).
Region_new_included_in(build, s, e) ==
    LET start == Usize_align_up(build, s, PageSize)
        end == Usize_align_down(e, PageSize)
    IN  IF start.panic \/ end.panic THEN Panic
        ELSE Ok(PageFrameRegion(start.val \div PageSize, end.val \div PageSize))

\* kmem PageFrameRegion::new_including of the byte range [s, e).
Region_new_including(build, s, e) ==
    LET end_base == e \div PageSize
        end_offset == IF e % PageSize # 0 THEN 1 ELSE 0
        start == Usize_align_down(s, PageSize)
        end == UsizeAdd(build, end_base, end_offset)
    IN  IF start.panic \/ end.panic THEN Panic
        ELSE Ok(PageFrameRegion(start.val \div PageSize, end.val))

\* kmem PageFrameRegion::length
Region_length(r) == IF r.start > r.end THEN 0 ELSE r.end - r.start

\* The calls on frame regions: the constructors on every byte range [s, e)
\* with s <= e, length and is_empty on every pair of frames.
RegionCalls ==
    { c \in [op : {"new_included_in", "new_including"}, build : Builds,
             x : Usize, arg : Usize, done : {FALSE}, ret : {0}] : c.x <= c.arg }
    \cup { [op |-> "length", build |-> "debug", x |-> s, arg |-> e,
            done |-> FALSE, ret |-> 0] :
        s \in 0 .. (UsizeMax \div PageSize), e \in 0 .. (UsizeMax \div PageSize) }

RegionNewIncludedIn ==
    /\ Pending("new_included_in")
    /\ Returns(Region_new_included_in(ucall.build, ucall.x, ucall.arg))

RegionNewIncluding ==
    /\ Pending("new_including")
    /\ Returns(Region_new_including(ucall.build, ucall.x, ucall.arg))

\* length() and is_empty() of the region [x, arg).
RegionLength ==
    /\ Pending("length")
    /\ Returns([length |-> Region_length(PageFrameRegion(ucall.x, ucall.arg)),
                is_empty |-> is_empty(PageFrameRegion(ucall.x, ucall.arg))])

RegionNext == RegionNewIncludedIn \/ RegionNewIncluding \/ RegionLength

\* The alignments: 0, every power of two, and some that are none.
Alignments == {0, 3, 6, UsizeMax} \cup { a \in Usize : IsPowerOfTwo(a) }

\* The calls of the Alignable methods: every value with every alignment.
AlignCalls ==
    [op : {"align"}, build : Builds, x : Usize, arg : Alignments,
     done : {FALSE}, ret : {0}]

\* align_up, align_down and is_aligned of x to the alignment arg, and
\* align_up of what align_up returned.
Align ==
    /\ Pending("align")
    /\ LET up == Usize_align_up(ucall.build, ucall.x, ucall.arg)
       IN  Returns([up |-> up,
                    down |-> Usize_align_down(ucall.x, ucall.arg),
                    aligned |-> Usize_is_aligned(ucall.x, ucall.arg),
                    again |-> IF up.panic THEN Panic
                              ELSE Usize_align_up(ucall.build, up.val, ucall.arg)])

\* kmem DirectMapping::new
DirectMapping(virtual_base, physical_base, size_in_bytes) ==
    [virtual_base |-> virtual_base, physical_base |-> physical_base,
     size_in_bytes |-> size_in_bytes]

\* addr >= base && addr < base + size_in_bytes: the sum is computed only
\* when the first comparison holds.
Dm_contains(build, base, size_in_bytes, addr) ==
    IF addr < base THEN Ok(FALSE)
    ELSE LET end == UsizeAdd(build, base, size_in_bytes)
         IN  IF end.panic THEN Panic ELSE Ok(addr < end.val)

\* DirectMapping::contains_phys
contains_phys(build, dm, phys_addr) ==
    Dm_contains(build, dm.physical_base, dm.size_in_bytes, phys_addr)

\* DirectMapping::contains_virt
contains_virt(build, dm, virt_addr) ==
    Dm_contains(build, dm.virtual_base, dm.size_in_bytes, virt_addr)

\* addr - from + to, behind the panic for an address outside of the mapping.
Dm_translate(build, inside, from, to, addr) ==
    IF inside.panic \/ ~inside.val THEN Panic
    ELSE UsizeAdd(build, addr - from, to)

\* DirectMapping::phys_to_virt
phys_to_virt(build, dm, phys_addr) ==
    Dm_translate(build, contains_phys(build, dm, phys_addr),
                 dm.physical_base, dm.virtual_base, phys_addr)

\* DirectMapping::virt_to_phys
virt_to_phys(build, dm, virt_addr) ==
    Dm_translate(build, contains_virt(build, dm, virt_addr),
                 dm.virtual_base, dm.physical_base, virt_addr)

\* The bases and sizes of the mappings: the ends of the address space, a
\* frame inside, and unaligned ones.
DmBases == {0, 1, PageSize, UsizeMax - PageSize + 1}

DmSizes == {0, 1, PageSize, 2 * PageSize}

DirectMappings ==
    { DirectMapping(v, p, s) : v \in DmBases, p \in DmBases, s \in DmSizes }

\* The addresses translated: the ones around both ends of the ranges.
DmAddrs ==
    Usize \cap UNION { {b - 1, b, b + 1, b + s - 1, b + s} : b \in DmBases, s \in DmSizes }

\* The translations of these addresses under every mapping.
DmCalls ==
    [op : {"phys_to_virt", "virt_to_phys"}, build : Builds, x : DmAddrs,
     arg : DirectMappings, done : {FALSE}, ret : {0}]

\* phys_to_virt(x), contains_virt of its result and the way back.
PhysToVirt ==
    /\ Pending("phys_to_virt")
    /\ LET dm == ucall.arg
           b == ucall.build
           to == phys_to_virt(b, dm, ucall.x)
       IN  Returns([to |-> to,
                    contains |-> IF to.panic THEN Panic
                                 ELSE contains_virt(b, dm, to.val),
                    back |-> IF to.panic THEN Panic
                             ELSE virt_to_phys(b, dm, to.val)])

\* virt_to_phys(x), contains_phys of its result and the way back.
VirtToPhys ==
    /\ Pending("virt_to_phys")
    /\ LET dm == ucall.arg
           b == ucall.build
           to == virt_to_phys(b, dm, ucall.x)
       IN  Returns([to |-> to,
                    contains |-> IF to.panic THEN Panic
                                 ELSE contains_phys(b, dm, to.val),
                    back |-> IF to.panic THEN Panic
                             ELSE phys_to_virt(b, dm, to.val)])

DmNext == PhysToVirt \/ VirtToPhys

(***************************************************************************)
(* The addresses of the page tables behind a recursive mapping, on 64-bit  *)
(* words: learnos_kernel memory::vmm and kmem CurrentRecursiveMapping.     *)
(***************************************************************************)
\* The word of a table index (0 .. 511).
IndexWord(n) == { i \in 0 .. 8 : (n \div (2 ^ i)) % 2 = 1 }

\* 0x1FF
INDEX_MASK == 0 .. 8

\* 0xFFFF_007F_FFFF_FFFF
CLEAR_PML4_INDEX == FromHex(<<15, 15, 15, 15, 0, 0, 7, 15, 15, 15, 15, 15, 15, 15, 15, 15>>)

\* Index into the PML4 where the kernel maps it onto itself.
PML4_RECURSIVE_MAPPING_INDEX == 510

\* (vaddr >> (12 + 9 * level)) & INDEX_MASK
Vmm_index_at_level(level, vaddr) == ShiftRight(vaddr, 12 + 9 * level) \cap INDEX_MASK

\* The mutant of the loop that leaves the PML4 index of the shifted address.
RECURSIVE RecursionLoop_NoClear(_, _, _)
RecursionLoop_NoClear(addr, n, set_index) ==
    IF n = 0 THEN addr
    ELSE RecursionLoop_NoClear(ShiftRight(addr, 9) \cup set_index, n - 1, set_index)

\* The loop of entry_at_level: n times
\* addr = ((addr >> 9) & CLEAR_PML4_INDEX) | set_index
RECURSIVE RecursionLoop(_, _, _)
RecursionLoop(addr, n, set_index) ==
    IF n = 0 THEN addr
    ELSE RecursionLoop((ShiftRight(addr, 9) \cap CLEAR_PML4_INDEX) \cup set_index,
                       n - 1, set_index)

\* The end of entry_at_level: the address made canonical and aligned to a
\* table entry.
CanonicalEntry(recursive, addr) ==
    LET canonical ==
            IF recursive >= 256
            THEN addr \cup FromHex(<<15, 15, 15, 15, 0, 0, 0, 0, 0, 0, 0, 0, 0, 0, 0, 0>>)
            ELSE addr \cap FromHex(<<0, 0, 0, 0, 15, 15, 15, 15, 15, 15, 15, 15, 15, 15, 15, 15>>)
    IN  canonical \cap FromHex(<<15, 15, 15, 15, 15, 15, 15, 15, 15, 15, 15, 15, 15, 15, 15, 8>>)

\* learnos_kernel vmm::entry_at_level
Vmm_entry_at_level(level, vaddr) ==
    CanonicalEntry(PML4_RECURSIVE_MAPPING_INDEX,
        RecursionLoop(vaddr, level + 1,
                      ShiftLeft(IndexWord(PML4_RECURSIVE_MAPPING_INDEX), 39)))

\* learnos_kernel vmm::table_at_level: the entry aligned down to 4096.
Vmm_table_at_level(level, vaddr) == Vmm_entry_at_level(level, vaddr) \ (0 .. 11)

\* kmem CurrentRecursiveMapping::entry_at_level on 64-bit words.
Crm_entry_at_level(recursive, level, vaddr) ==
    CanonicalEntry(recursive,
        RecursionLoop(vaddr, level + 1, ShiftLeft(IndexWord(recursive), 3 * 9 + 12)))

\* kmem CurrentRecursiveMapping::table_at_level on 64-bit words.
Crm_table_at_level(recursive, level, vaddr) ==
    Crm_entry_at_level(recursive, level, vaddr) \ (0 .. 11)

\* The virtual addresses given to the functions: every combination of a few
\* table indices, page offsets and upper 16 bits, and the address of the
\* tests in vmm/mod.rs.
AddrIndices == {0, 341, 511}

AddrOffsets == {{}, {1, 3, 5, 7, 9, 11}, 0 .. 11}

AddrSigns == {{}, 48 .. 63, {63}}

TestAddr ==
    ShiftLeft(IndexWord(129), 39) \cup ShiftLeft(IndexWord(130), 30)
        \cup ShiftLeft(IndexWord(68), 21) \cup ShiftLeft(IndexWord(40), 12)
        \cup {1, 3, 5, 7, 9, 11}

VirtAddrs ==
    { ShiftLeft(IndexWord(i3), 39) \cup ShiftLeft(IndexWord(i2), 30)
        \cup ShiftLeft(IndexWord(i1), 21) \cup ShiftLeft(IndexWord(i0), 12)
        \cup off \cup sign :
        i3 \in AddrIndices, i2 \in AddrIndices, i1 \in AddrIndices,
        i0 \in AddrIndices, off \in AddrOffsets, sign \in AddrSigns }
    \cup {TestAddr}

\* The recursive indices of a CurrentRecursiveMapping: both halves of the
\* address space.
RecursiveIndices == {0, 255, 256, 511}

EntryCalls ==
    [op : {"vmm_entry_at_level"}, x : VirtAddrs,
     arg : [level : 0 .. 3, recursive : {PML4_RECURSIVE_MAPPING_INDEX}],
     done : {FALSE}, ret : {0}]
    \cup [op : {"entry_at_level"}, x : VirtAddrs,
          arg : [level : 0 .. 3, recursive : RecursiveIndices],
          done : {FALSE}, ret : {0}]

\* The three functions of learnos_kernel memory::vmm on one address.
VmmEntryAtLevel ==
    /\ Pending("vmm_entry_at_level")
    /\ Returns([entry |-> Vmm_entry_at_level(ucall.arg.level, ucall.x),
                table |-> Vmm_table_at_level(ucall.arg.level, ucall.x),
                index |-> Vmm_index_at_level(ucall.arg.level, ucall.x)])

\* The functions of a kmem CurrentRecursiveMapping on one address.
CrmEntryAtLevel ==
    /\ Pending("entry_at_level")
    /\ Returns([entry |-> Crm_entry_at_level(ucall.arg.recursive, ucall.arg.level, ucall.x),
                table |-> Crm_table_at_level(ucall.arg.recursive, ucall.arg.level, ucall.x),
                index |-> Vmm_index_at_level(ucall.arg.level, ucall.x)])

EntryNext == VmmEntryAtLevel \/ CrmEntryAtLevel

(***************************************************************************)
(* amd64 util: the Bits trait on u16.  A word is the set of the positions  *)
(* of its one bits; the bounds of a range are usize values, and a usize    *)
(* that wrapped below zero is kept as the negative number it is congruent  *)
(* to modulo 2^64.                                                         *)
(***************************************************************************)
\* mem::size_of::<u16>() * 8
U16Width == 16

U16Bits == 0 .. (U16Width - 1)

\* The u16 of the number n.
U16Word(n) == { i \in U16Bits : (n \div (2 ^ i)) % 2 = 1 }

\* a - b on usize.
UsizeSub(build, a, b) ==
    IF a < 0 \/ a >= b THEN Ok(a - b)
    ELSE IF build = "debug" THEN Panic
    ELSE Ok(a - b)

\* The amount a u16 is shifted by: a shift by the width or more panics with
\* overflow checks and takes the amount modulo the width without them.
ShiftAmount(build, k) ==
    IF 0 <= k /\ k < U16Width THEN Ok(k)
    ELSE IF build = "debug" THEN Panic
    ELSE Ok(k % U16Width)

\* Bound::Included(at), Bound::Excluded(at), Bound::Unbounded
Bound(kind, at) == [kind |-> kind, at |-> at]

\* BitRange::first_bit
first_bit(r) ==
    CASE r.start.kind = "Included" -> Ok(r.start.at)
      [] r.start.kind = "Excluded" -> Ok(r.start.at + 1)
      [] r.start.kind = "Unbounded" -> Ok(0)

\* BitRange::last_bit::<u16>
last_bit(build, r) ==
    CASE r.end.kind = "Included" -> Ok(r.end.at)
      [] r.end.kind = "Excluded" -> UsizeSub(build, r.end.at, 1)
      [] r.end.kind = "Unbounded" -> Ok(U16Width - 1)

\* mask!(u16, from, to):
\* !((1 << from) - 1) & ((1 << to) - 1 + (1 << to))
mask(build, from, to) ==
    LET f == ShiftAmount(build, from)
        t == ShiftAmount(build, to)
    IN  IF f.panic \/ t.panic THEN Panic
        ELSE Ok((U16Bits \ U16Word((2 ^ f.val) - 1))
                    \cap U16Word((2 ^ t.val) - 1 + (2 ^ t.val)))

\* x << k and x >> k on u16.
U16ShiftLeft(build, x, k) ==
    LET by == ShiftAmount(build, k)
    IN  IF by.panic THEN Panic ELSE Ok({ b + by.val : b \in x } \cap U16Bits)

U16ShiftRight(build, x, k) ==
    LET by == ShiftAmount(build, k)
    IN  IF by.panic THEN Panic ELSE Ok({ b - by.val : b \in x } \cap U16Bits)

\* Bits::get_bits on u16.
get_bits(build, x, range) ==
    LET first_bit_ == first_bit(range)
        last_bit_ == last_bit(build, range)
    IN  IF last_bit_.panic THEN Panic
        ELSE LET m == mask(build, first_bit_.val, last_bit_.val)
             IN  IF m.panic THEN Panic
                 ELSE U16ShiftRight(build, x \cap m.val, first_bit_.val)

\* Bits::set_bits on u16: the new value of the word.
set_bits(build, x, range, value) ==
    LET first_bit_ == first_bit(range)
        last_bit_ == last_bit(build, range)
    IN  IF last_bit_.panic THEN Panic
        ELSE LET mask1 == mask(build, first_bit_.val, last_bit_.val)
                 width == UsizeSub(build, last_bit_.val, first_bit_.val)
             IN  IF mask1.panic \/ width.panic THEN Panic
                 ELSE LET mask2 == mask(build, 0, width.val)
                      IN  IF mask2.panic THEN Panic
                          ELSE LET shifted == U16ShiftLeft(build, value \cap mask2.val,
                                                           first_bit_.val)
                               IN  IF shifted.panic THEN Panic
                                   ELSE Ok((x \ mask1.val) \cup shifted.val)

\* The ranges inside of the width: a..b, a..=b, a.., ..b, ..=b, .. and the
\* ranges with an excluded start.
StartBounds ==
    { Bound("Included", a) : a \in U16Bits } \cup { Bound("Excluded", a) : a \in U16Bits }
        \cup { Bound("Unbounded", 0) }

EndBounds ==
    { Bound("Included", b) : b \in U16Bits } \cup { Bound("Excluded", b) : b \in 0 .. U16Width }
        \cup { Bound("Unbounded", 0) }

BitRanges == [start : StartBounds, end : EndBounds]

\* The bit positions inside of a range.
RangeBits(r) ==
    { p \in U16Bits :
        /\ r.start.kind = "Included" => p >= r.start.at
        /\ r.start.kind = "Excluded" => p > r.start.at
        /\ r.end.kind = "Included" => p <= r.end.at
        /\ r.end.kind = "Excluded" => p < r.end.at }

\* Values that fit into a range of n bits: none, all and every second bit.
FittingValues(n) == { {}, 0 .. (n - 1), { i \in 0 .. (n - 1) : i % 2 = 0 } }

\* The words the bits are set in; the last one is the word of the tests.
BitsWords == { {}, U16Bits, {0, 2, 3, 4, 5, 9, 10, 14, 15} }

BitsCalls ==
    UNION { [op : {"set_bits"}, build : Builds, x : BitsWords,
             arg : [range : {r}, value : FittingValues(Cardinality(RangeBits(r)))],
             done : {FALSE}, ret : {0}] : r \in BitRanges }

\* x.set_bits(range, value), then x.get_bits(range).
SetBits ==
    /\ Pending("set_bits")
    /\ LET new == set_bits(ucall.build, ucall.x, ucall.arg.range, ucall.arg.value)
       IN  Returns([x |-> new,
                    bits |-> IF new.panic THEN Panic
                             ELSE get_bits(ucall.build, new.val, ucall.arg.range)])

(***************************************************************************)
(* learnos_kernel kaal::mem::init: the page frame table made from the      *)
(* memory map.  The table has one entry per frame below the highest end of *)
(* a region; the direct mapping is taken to cover the table's storage.     *)
(***************************************************************************)
\* PhysAddrRange::new
PhysAddrRange_new(start, len) == [start |-> start, length |-> len]

\* PhysAddrRange::from_bounds
PhysAddrRange_from_bounds(start, end) ==
    [start |-> start, length |-> IF end < start THEN 0 ELSE end - start]

\* PageFrameRegion::new_including of an address range that ends inside of
\* the address space.
new_including(range) ==
    LET end == range.start + range.length
    IN  PageFrameRegion(range.start \div PageSize,
                        (end \div PageSize) + (IF end % PageSize # 0 THEN 1 ELSE 0))

\* mem::size_of::<PageFrameInfo>()
PageFrameInfoSize == 1

\* PageFrameTable::required_size_bytes
required_size_bytes(num_page_frames) == num_page_frames * PageFrameInfoSize

\* PageFrameTable::from_addr for num_page_frames frames.
Pft_from_addr(num_page_frames) == [i \in 0 .. (num_page_frames - 1) |-> "Free"]

\* The loop of mark_allocated and mark_reserved over the frames i .. e - 1.
RECURSIVE PftMarkLoop(_, _, _, _, _)
PftMarkLoop(t, i, e, bad, to) ==
    IF i >= e THEN [table |-> t, panic |-> FALSE]
    ELSE IF t[i] \in bad THEN [table |-> t, panic |-> TRUE]
    ELSE PftMarkLoop([t EXCEPT ![i] = to], i + 1, e, bad, to)

\* mark_allocated / mark_reserved on a table of n frames, behind the assert
\* of region_iter_mut.
PftMark(t, n, r, bad, to) ==
    IF ~(r.start < n /\ r.end <= n) THEN [table |-> t, panic |-> TRUE]
    ELSE PftMarkLoop(t, r.start, r.end, bad, to)

\* mark_reserved of the regions from the i-th one on, in the order of the
\* memory map.
RECURSIVE MarkReservedFrom(_, _, _, _)
MarkReservedFrom(t, n, regions, i) ==
    IF i > Len(regions) THEN [table |-> t, panic |-> FALSE]
    ELSE LET m == PftMark(t, n, regions[i].frames, {"Allocated"}, "Reserved")
         IN  IF m.panic THEN m ELSE MarkReservedFrom(m.table, n, regions, i + 1)

\* The available regions above the important kernel data.
available_regions(memory_map, heap_start_frame) ==
    LET available == SelectSeq(memory_map, LAMBDA r : r.available)
        clipped == [i \in 1 .. Len(available) |->
                       PageFrameRegion(
                           IF available[i].frames.start >= heap_start_frame
                           THEN available[i].frames.start ELSE heap_start_frame,
                           available[i].frames.end)]
    IN  SelectSeq(clipped, LAMBDA r : ~is_empty(r))

\* The highest end of a region of the memory map, or 0.
page_frame_count(memory_map) ==
    IF memory_map = <<>> THEN 0
    ELSE CHOOSE n \in { memory_map[i].frames.end : i \in 1 .. Len(memory_map) } :
             \A i \in 1 .. Len(memory_map) : memory_map[i].frames.end <= n

\* initialize_page_frame_table: the table, the frames it is stored in, and
\* whether the function panicked.
initialize_page_frame_table(layout, memory_map) ==
    LET heap_start_frame == PageFrame_next_above(layout.heap_start)
        regions == available_regions(memory_map, heap_start_frame)
        count == page_frame_count(memory_map)
        page_frame_table_size == required_size_bytes(count)
        fitting == SelectSeq(regions,
                             LAMBDA r : Region_length(r) * PageSize >= page_frame_table_size)
        failed == [panic |-> TRUE, table |-> <<>>, storage |-> PageFrameRegion(0, 0)]
    IN  IF fitting = <<>> THEN failed
        ELSE
        LET page_frame_table_addr == start_address(fitting[1].start)
            storage == new_including(PhysAddrRange_new(page_frame_table_addr,
                                                       page_frame_table_size))
            reserved == MarkReservedFrom(Pft_from_addr(count), count,
                                         SelectSeq(memory_map, LAMBDA r : ~r.available), 1)
            own == IF reserved.panic THEN reserved
                   ELSE PftMark(reserved.table, count, storage, {"Reserved"}, "Allocated")
            kernel == IF own.panic THEN own
                      ELSE PftMark(own.table, count, new_including(layout.kernel_memory),
                                   {"Reserved"}, "Allocated")
            low == IF kernel.panic THEN kernel
                   ELSE PftMark(kernel.table, count,
                                new_including(PhysAddrRange_from_bounds(0, layout.heap_start)),
                                {"Reserved"}, "Allocated")
        IN  [panic |-> low.panic, table |-> low.table, storage |-> storage]

\* The regions of a memory map: every range of the frames 0 .. NumFrames,
\* available or not.
MapRegions ==
    { [frames |-> PageFrameRegion(s, e), available |-> a] :
        s \in 0 .. NumFrames, e \in 0 .. NumFrames, a \in BOOLEAN }

\* The memory maps of at most two regions, in any order and overlapping.
PhysicalMemoryMaps ==
    {<<>>} \cup { <<r>> : r \in { m \in MapRegions : m.frames.start <= m.frames.end } }
        \cup { <<r1, r2>> : r1 \in { m \in MapRegions : m.frames.start < m.frames.end },
                            r2 \in { m \in MapRegions : m.frames.start < m.frames.end } }

\* The layouts: the kernel at the start of memory or one frame above, of one
\* byte or one frame, and the heap behind it or inside of the third frame.
PhysicalMemoryLayouts ==
    { [kernel_memory |-> PhysAddrRange_new(k, l), heap_start |-> h] :
        k \in {0, PageSize}, l \in {1, PageSize}, h \in {PageSize, 2 * PageSize + 1} }

InitCalls ==
    [op : {"initialize_page_frame_table"}, x : PhysicalMemoryLayouts,
     arg : PhysicalMemoryMaps, done : {FALSE}, ret : {0}]

InitializePageFrameTable ==
    /\ Pending("initialize_page_frame_table")
    /\ Returns(initialize_page_frame_table(ucall.x, ucall.arg))

(***************************************************************************)
(* amd64 ioapic: IoApicRegisters.  The I/O APIC has a register that        *)
(* selects one of its indexed registers and a window onto the selected     *)
(* one; a 32-bit register and a 64-bit redirection entry are the sets of   *)
(* the positions of their one bits.                                        *)
(***************************************************************************)
\* Number of redirection entries of the I/O APIC in the model.
IoApicEntries == 2

REDIRECTION_ENTRY_REG_BASE == 16

U32Bits == 0 .. 31

\* The indexed registers of the redirection entries.
IoRegs == REDIRECTION_ENTRY_REG_BASE .. (REDIRECTION_ENTRY_REG_BASE + 2 * IoApicEntries - 1)

IoIndexes == 0 .. (IoApicEntries - 1)

\* What every register holds before the first write: nothing, or the mask
\* bit of a redirection entry.
IoResetValues == { {}, {16} }

NoIoCall == [op |-> "none", index |-> 0, entry |-> {}, ret |-> {},
             pre |-> [r \in IoRegs |-> {}], written |-> [i \in IoIndexes |-> None]]

IoApicIdle ==
    /\ ioapic = [sel |-> 0, regs |-> [r \in IoRegs |-> {}]]
    /\ iohist = NoIoCall

IoApicInit ==
    /\ \E v \in IoResetValues : ioapic = [sel |-> 0, regs |-> [r \in IoRegs |-> v]]
    /\ iohist = [NoIoCall EXCEPT !.pre = ioapic.regs]

\* IoApicRegisters::write_reg: the index goes to the address register, the
\* value to the data register.
write_reg(io, register_index, value) ==
    [sel |-> register_index, regs |-> [io.regs EXCEPT ![register_index] = value]]

\* IoApicRegisters::read_reg: the device after the read, and the value read.
read_reg(io, register_index) ==
    [io |-> [io EXCEPT !.sel = register_index], val |-> io.regs[register_index]]

\* IoApicRegisters::redirection_entry
redirection_entry(io, index) ==
    LET reg == REDIRECTION_ENTRY_REG_BASE + index * 2
        lo == read_reg(io, reg)
        hi == read_reg(lo.io, reg + 1)
    IN  [io |-> hi.io, val |-> ShiftLeft(hi.val, 32) \cup lo.val]

\* IoApicRegisters::set_redirection_entry
set_redirection_entry(io, index, entry) ==
    LET reg == REDIRECTION_ENTRY_REG_BASE + index * 2
        lo == entry \cap U32Bits
        hi == ShiftRight(entry, 32) \cap U32Bits
    IN  write_reg(write_reg(io, reg, lo), reg, hi)

\* The entries written: the halves differ, are equal, and hold the top bit.
IoEntries == { {0}, {32}, {0, 32}, {0, 32, 63} }

SetRedirectionEntry(index, entry) ==
    /\ ioapic' = set_redirection_entry(ioapic, index, entry)
    /\ iohist' = [op |-> "set_redirection_entry", index |-> index, entry |-> entry,
                  ret |-> {}, pre |-> ioapic.regs,
                  written |-> [iohist.written EXCEPT ![index] = Some(entry)]]
    /\ UNCHANGED nonIoApicVars

RedirectionEntry(index) ==
    /\ LET r == redirection_entry(ioapic, index)
       IN  /\ ioapic' = r.io
           /\ iohist' = [iohist EXCEPT !.op = "redirection_entry", !.index = index,
                                       !.entry = {}, !.ret = r.val,
                                       !.pre = ioapic.regs]
    /\ UNCHANGED nonIoApicVars

IoApicNext ==
    \/ \E index \in IoIndexes, entry \in IoEntries : SetRedirectionEntry(index, entry)
    \/ \E index \in IoIndexes : RedirectionEntry(index)

(***************************************************************************)
(* Claims about the helper functions.                                      *)
(***************************************************************************)
\* The field a setter writes, and the value its getter has to return.
PteSetters ==
    [set_base |-> "base", set_flags |-> "flags",
     set_executable |-> "executable", set_user_data |-> "user_data"]

PteWritten(op, arg) == IF op = "set_base" THEN arg \cap (12 .. 51) ELSE arg

\* C21: on a PageTableEntry every setter followed by its getter returns the
\* value set (the base masked to bits 12-51), and set_base, set_flags,
\* set_executable and set_user_data each leave the values of the other three
\* getters as they were.
C21_PteFieldsIndependent ==
    (ucall.op \in DOMAIN PteSetters /\ ucall.done) =>
        LET field == PteSetters[ucall.op]
            before == PteFields(ucall.x)
            after == PteFields(ucall.ret)
        IN  /\ after[field] = PteWritten(ucall.op, ucall.arg)
            /\ \A other \in DOMAIN before \ {field} : after[other] = before[other]

\* The same for flags and the no-execute bit alone, bits that no other field
\* shares.
PteFlagsExecutableIndependent ==
    (ucall.op \in {"set_flags", "set_executable"} /\ ucall.done) =>
        LET field == PteSetters[ucall.op]
            before == PteFields(ucall.x)
            after == PteFields(ucall.ret)
        IN  /\ after[field] = ucall.arg
            /\ \A other \in DOMAIN before \ {field} : after[other] = before[other]

PteFlagsExecutableIndependentWitness ==
    /\ ucall.op = "set_flags" /\ ucall.done /\ ucall.arg = {0, 2, 7}
    /\ Pte_user_data(ucall.x) = 0 .. 13

\* The calls that are to be made.
UtilCalls == PteCalls \cup RegionCalls \cup AlignCalls \cup DmCalls \cup EntryCalls \cup BitsCalls
    \cup InitCalls

UtilInit == ucall \in UtilCalls

UtilNext ==
    \/ PteNext
    \/ RegionNext
    \/ Align
    \/ DmNext
    \/ EntryNext
    \/ SetBits
    \/ InitializePageFrameTable

\* ceil(a / PageSize)
CeilFrame(a) == (a + PageSize - 1) \div PageSize

\* The call returned the value v, and did not fault.
ReturnedOk(v) == ~ucall.ret.panic /\ ucall.ret.val = v

\* What the claim says of new_including and of length: the smallest region
\* of frames that covers [s, e), without a fault, and a length of 0 exactly
\* for the empty regions.
RegionIncludingAndLength ==
    /\ (ucall.op = "new_including" /\ ucall.done) =>
          ReturnedOk(PageFrameRegion(ucall.x \div PageSize, CeilFrame(ucall.arg)))
    /\ (ucall.op = "length" /\ ucall.done) =>
          (ucall.ret.length = 0 <=> ucall.ret.is_empty)

\* C22: for every byte range [s, e) with s <= e new_included_in gives the
\* region from frame ceil(s / page size) to frame floor(e / page size),
\* new_including gives the region from floor(s / page size) to
\* ceil(e / page size), up to the highest address without overflow, and
\* length() is 0 exactly when is_empty().
C22_RegionRounding ==
    /\ (ucall.op = "new_included_in" /\ ucall.done) =>
          ReturnedOk(PageFrameRegion(CeilFrame(ucall.x), ucall.arg \div PageSize))
    /\ RegionIncludingAndLength

\* The same with new_included_in only on the ranges whose start can be
\* rounded up within usize.
RegionRoundingNoOverflow ==
    /\ (ucall.op = "new_included_in" /\ ucall.done
            /\ CeilFrame(ucall.x) * PageSize <= UsizeMax) =>
          ReturnedOk(PageFrameRegion(CeilFrame(ucall.x), ucall.arg \div PageSize))
    /\ RegionIncludingAndLength

\* new_included_in of a range that starts and ends inside of frames and
\* holds two whole frames.
RegionRoundingNoOverflowWitness ==
    /\ ucall.op = "new_included_in" /\ ucall.done
    /\ ucall.x % PageSize # 0 /\ ucall.arg % PageSize # 0
    /\ ~ucall.ret.panic
    /\ Region_length(ucall.ret.val) = 2

\* The multiples of a.
MultipleOf(v, a) == v % a = 0

\* Rounding x up to a multiple of a stays within usize.
RoundsUpWithin(x, a) == \E m \in x .. UsizeMax : MultipleOf(m, a)

\* C26: for every x and every power of two a for which rounding up does not
\* overflow, align_down(a) <= x <= align_up(a), both are multiples of a,
\* align_up is idempotent, and is_aligned(a) holds exactly when align_down(a)
\* is x; with a = 0 the functions return x, the highest value included.
C26_AlignRounds ==
    (ucall.op = "align" /\ ucall.done) =>
        LET x == ucall.x
            a == ucall.arg
            r == ucall.ret
        IN  /\ (a # 0 /\ IsPowerOfTwo(a) /\ RoundsUpWithin(x, a)) =>
                  /\ ~r.up.panic /\ ~r.down.panic /\ ~r.aligned.panic /\ ~r.again.panic
                  /\ r.down.val <= x /\ x <= r.up.val
                  /\ MultipleOf(r.down.val, a) /\ MultipleOf(r.up.val, a)
                  /\ r.again.val = r.up.val
                  /\ r.aligned.val = (r.down.val = x)
            /\ a = 0 =>
                  /\ ~r.up.panic /\ ~r.down.panic
                  /\ r.up.val = x /\ r.down.val = x

\* A value inside of a block is rounded to both ends of the block.
C26_Witness ==
    /\ ucall.op = "align" /\ ucall.done
    /\ ucall.arg = 8 /\ ucall.x = 13
    /\ ucall.ret.up = Ok(16) /\ ucall.ret.down = Ok(8)
    /\ ucall.ret.aligned = Ok(FALSE)

\* The highest value with the alignment 0.
C26_WitnessZero ==
    /\ ucall.op = "align" /\ ucall.done
    /\ ucall.arg = 0 /\ ucall.x = UsizeMax
    /\ ucall.ret.up = Ok(UsizeMax)

\* A value that is aligned already.
C26_WitnessAligned ==
    /\ ucall.op = "align" /\ ucall.done
    /\ ucall.arg = 4 /\ ucall.x = 12
    /\ ucall.ret.up = Ok(12) /\ ucall.ret.aligned = Ok(TRUE)

\* The base of the range a translation starts from, and of the one it ends in.
DmFrom == IF ucall.op = "phys_to_virt" THEN ucall.arg.physical_base
          ELSE ucall.arg.virtual_base

DmTo == IF ucall.op = "phys_to_virt" THEN ucall.arg.virtual_base
        ELSE ucall.arg.physical_base

DmDone == ucall.op \in {"phys_to_virt", "virt_to_phys"} /\ ucall.done

\* The address lies in [base, base + size) of the source range.
DmInside == DmFrom <= ucall.x /\ ucall.x < DmFrom + ucall.arg.size_in_bytes

\* The translation returned to + (x - from), the result is contained in the
\* target range, and the translation back returns x.
DmRoundTrip ==
    /\ ~ucall.ret.to.panic /\ ucall.ret.to.val = DmTo + (ucall.x - DmFrom)
    /\ ~ucall.ret.contains.panic /\ ucall.ret.contains.val
    /\ ~ucall.ret.back.panic /\ ucall.ret.back.val = ucall.x

\* C23: for every address inside [base, base + size) of a mapping the
\* translation is to + (x - from), the result is contained in the other
\* range and translates back to x, in both directions; for every address
\* outside, base - 1 and base + size included, the translation faults.
C23_DirectMapping ==
    DmDone => IF DmInside THEN DmRoundTrip ELSE ucall.ret.to.panic

\* Both ranges of the mapping end below the highest address.
DmRangesBelowTop ==
    /\ ucall.arg.physical_base + ucall.arg.size_in_bytes <= UsizeMax
    /\ ucall.arg.virtual_base + ucall.arg.size_in_bytes <= UsizeMax

\* The same for the mappings whose ranges end below the highest address.
DirectMappingBelowTop ==
    (DmDone /\ DmRangesBelowTop) =>
        IF DmInside THEN DmRoundTrip ELSE ucall.ret.to.panic

\* An address inside of a mapping between two different bases.
DirectMappingBelowTopWitness ==
    /\ DmDone /\ DmRangesBelowTop /\ DmInside
    /\ ucall.arg.physical_base = 1 /\ ucall.arg.virtual_base = PageSize
    /\ ucall.x = 2 /\ ucall.ret.back = Ok(2)

\* The address behind the end of a mapping.
DirectMappingBelowTopWitnessEnd ==
    /\ DmDone /\ DmRangesBelowTop
    /\ ucall.x = DmFrom + ucall.arg.size_in_bytes
    /\ ucall.arg.size_in_bytes > 0
    /\ ucall.ret.to.panic

\* Bits 12 + 9 * level .. 20 + 9 * level of v, as a table index.
IndexField(level, v) ==
    { b - (12 + 9 * level) : b \in v \cap ((12 + 9 * level) .. (20 + 9 * level)) }

\* The table index an entry address has in position j, counted from the
\* PML4 index (j = 0): the recursive index in the first level + 1 positions,
\* behind them the indices of v from level 3 downwards.
EntryIndex(recursive, level, v, j) ==
    IF j <= level THEN IndexWord(recursive) ELSE IndexField(4 + level - j, v)

\* The canonical address of the four indices and the page offset
\* 8 * index_at_level(level, v).
EntryAddress(recursive, level, v) ==
    UNION { ShiftLeft(EntryIndex(recursive, level, v, j), 12 + 9 * (3 - j)) : j \in 0 .. 3 }
        \cup ShiftLeft(IndexField(level, v), 3)
        \cup (IF 8 \in IndexWord(recursive) THEN 48 .. 63 ELSE {})

EntryDone == ucall.op \in {"vmm_entry_at_level", "entry_at_level"} /\ ucall.done

\* C24: with the recursive index R, entry_at_level(L, v) is the canonical
\* address whose table indices are R repeated L + 1 times and then the
\* indices of v of the levels 3 down to L + 1, with the page offset
\* 8 * index_at_level(L, v); table_at_level(L, v) is that address with the
\* page offset cleared, and index_at_level(L, v) is bits 12 + 9L .. 20 + 9L
\* of v.
C24_EntryAtLevel ==
    EntryDone =>
        LET expected == EntryAddress(ucall.arg.recursive, ucall.arg.level, ucall.x)
        IN  /\ ucall.ret.entry = expected
            /\ ucall.ret.table = expected \ (0 .. 11)
            /\ ucall.ret.index = IndexField(ucall.arg.level, ucall.x)

\* test_entry_at_level of vmm/mod.rs: the PT entry of the test's address is
\* 0b1111_1111_1111_1111_111111110_010000001_010000010_001000100_000101000000.
C24_Witness ==
    /\ ucall.op = "vmm_entry_at_level" /\ ucall.done
    /\ ucall.x = TestAddr /\ ucall.arg.level = 0
    /\ ucall.ret.entry =
          (48 .. 63) \cup ShiftLeft(IndexWord(510), 39) \cup ShiftLeft(IndexWord(129), 30)
              \cup ShiftLeft(IndexWord(130), 21) \cup ShiftLeft(IndexWord(68), 12)
              \cup ShiftLeft(IndexWord(40), 3)
    /\ ucall.ret.index = IndexWord(40)

\* The PML4 entry of an upper-half address behind a recursive index of the
\* lower half.
C24_WitnessLower ==
    /\ ucall.op = "entry_at_level" /\ ucall.done
    /\ ucall.arg.recursive = 255 /\ ucall.arg.level = 3
    /\ 63 \in ucall.x /\ 47 \in ucall.x
    /\ ucall.ret.table = ShiftLeft(IndexWord(255), 39) \cup ShiftLeft(IndexWord(255), 30)
              \cup ShiftLeft(IndexWord(255), 21) \cup ShiftLeft(IndexWord(255), 12)
BitsDone == ucall.op = "set_bits" /\ ucall.done

\* get_bits returns the value that was set, and the bits outside of the
\* range are the ones of the word before.
BitsSet ==
    /\ ~ucall.ret.x.panic /\ ~ucall.ret.bits.panic
    /\ ucall.ret.bits.val = ucall.arg.value
    /\ ucall.ret.x.val \ RangeBits(ucall.arg.range) = ucall.x \ RangeBits(ucall.arg.range)

\* C25: for every bit range r inside of the width, with inclusive, exclusive
\* or unbounded ends, and every v that fits in r: after x.set_bits(r, v),
\* x.get_bits(r) returns v and the bits of x outside r are unchanged.
C25_SetGetBits == BitsDone => BitsSet

\* The same for the ranges that hold a bit.
SetGetBitsNonEmpty ==
    (BitsDone /\ RangeBits(ucall.arg.range) # {}) => BitsSet

\* foo.set_bits(8..15, 0b101_0101) on the word of the tests.
SetGetBitsNonEmptyWitness ==
    /\ BitsDone
    /\ ucall.arg.range = [start |-> Bound("Included", 8), end |-> Bound("Excluded", 15)]
    /\ ucall.arg.value = {0, 2, 4, 6}
    /\ ucall.x = {0, 2, 3, 4, 5, 9, 10, 14, 15}
    /\ ucall.ret.x = Ok({0, 2, 3, 4, 5, 8, 10, 12, 14, 15})

\* The table in `frame` holds no entry.
Zeroed(m, frame) == \A i \in 0 .. (TableLen - 1) : m[frame][i] = PageTableEntry_new

\* C27: during map a newly allocated table is zeroed before the entry that
\* points to it is made PRESENT: at no step is a new table that still holds
\* stale entries reachable from the PML4 through PRESENT entries.
C27_NewTableZeroedFirst ==
    \A c \in Cores :
        (mp[c].pc = "memset" /\ mp[c].new_table \in Tables(mem)) =>
            Zeroed(mem, mp[c].new_table)
InitDone == ucall.op = "initialize_page_frame_table" /\ ucall.done

\* The memory map has an available region at or above heap_start that
\* holds the page frame table.
HasRoomForTable ==
    \E i \in 1 .. Len(ucall.arg) :
        LET r == ucall.arg[i]
            from == IF r.frames.start >= CeilFrame(ucall.x.heap_start)
                    THEN r.frames.start ELSE CeilFrame(ucall.x.heap_start)
        IN  /\ r.available
            /\ from < r.frames.end
            /\ (r.frames.end - from) * PageSize >= page_frame_count(ucall.arg)

\* The frames of the unavailable regions of the memory map.
UnavailableFrames ==
    UNION { RegionFrames(ucall.arg[i].frames) :
              i \in { j \in 1 .. Len(ucall.arg) : ~ucall.arg[j].available } }

\* The frames of the table's storage, of the kernel image and of
\* [0, heap_start).
KernelFrames ==
    RegionFrames(ucall.ret.storage)
        \cup { f \in 0 .. NumFrames :
                 /\ f * PageSize < ucall.x.kernel_memory.start + ucall.x.kernel_memory.length
                 /\ (f + 1) * PageSize > ucall.x.kernel_memory.start }
        \cup { f \in 0 .. NumFrames : f * PageSize < ucall.x.heap_start }

\* The table has an entry for every frame of the memory map: Reserved for
\* the unavailable regions, Allocated for the storage of the table, the
\* kernel and the memory below the heap, Free for the rest.
TableInitialized ==
    /\ DOMAIN ucall.ret.table = 0 .. (page_frame_count(ucall.arg) - 1)
    /\ UnavailableFrames \cup KernelFrames \subseteq DOMAIN ucall.ret.table
    /\ \A f \in DOMAIN ucall.ret.table :
          /\ f \in UnavailableFrames => ucall.ret.table[f] = "Reserved"
          /\ f \in KernelFrames => ucall.ret.table[f] = "Allocated"
          /\ f \notin UnavailableFrames \cup KernelFrames => ucall.ret.table[f] = "Free"

\* C28: for every memory map with an available region at or above heap_start
\* that holds the page frame table, initialize_page_frame_table returns
\* without faulting a table in which the frames of the unavailable regions
\* are Reserved, the frames of the table's storage, of the kernel image and
\* of [0, heap_start) are Allocated, and every other frame is Free.
C28_TableInitialized ==
    (InitDone /\ HasRoomForTable) => (~ucall.ret.panic /\ TableInitialized)

\* A table that initialize_page_frame_table returns is the one described.
TableInitializedOnReturn ==
    (InitDone /\ ~ucall.ret.panic) => TableInitialized

\* A returned table that holds frames of all three states.
TableInitializedOnReturnWitness ==
    /\ InitDone /\ ~ucall.ret.panic
    /\ \A s \in PageFrameState : \E f \in DOMAIN ucall.ret.table : ucall.ret.table[f] = s

\* A call of next() by a loop over the iterator.  The ghost acpi_call.start
\* tells a call from the one before it.
MadtLoopNext ==
    /\ madt_iter.op # "none" /\ ~madt_iter.panic
    /\ madt_iter' = MadtHeaderIter_next(acpi_mem, madt_iter)
    /\ acpi_call' = [NoAcpiCall EXCEPT !.op = "madt_next", !.T = "Madt",
                        !.addr = madt_iter.table, !.start = 1 - acpi_call.start]
    /\ UNCHANGED <<acpi_mem, sdt_iter>>
    /\ UNCHANGED nonAcpiVars

\* One iteration over the entries of a MADT: entry_headers once, then the
\* calls of next() of the loop over the iterator.
MadtIterate ==
    \/ \E addr \in TableAddrs : madt_iter.op = "none" /\ EntryHeaders(addr)
    \/ MadtLoopNext

\* next() has returned None or has faulted.
MadtIterationEnded ==
    madt_iter.op = "next" /\ (madt_iter.panic \/ ~madt_iter.ret.some)

\* C29: iterating the entries of a MADT terminates: whatever the bytes of
\* its records are, a record of record_length 0 included, a finite number
\* of calls of next() leads to None or to the fault.
C29_MadtIterationTerminates ==
    (madt_iter.op = "entry_headers") ~> MadtIterationEnded

\* A call of next() that returns a record whose record_length is not 0
\* moves the cursor forward.
MadtNextAdvances ==
    [][(madt_iter'.op = "next" /\ madt_iter'.ret.some
            /\ record_length(acpi_mem, madt_iter'.pre) # 0)
        => madt_iter'.current > madt_iter'.pre]_vars

\* next() returned a record of three bytes.
MadtNextAdvancesWitness ==
    /\ madt_iter.op = "next" /\ madt_iter.ret.some
    /\ record_length(acpi_mem, madt_iter.pre) = 3
    /\ madt_iter.current = madt_iter.pre + 3

\* The registers of the redirection entry of an index.
IoLow(index) == REDIRECTION_ENTRY_REG_BASE + 2 * index

IoHigh(index) == REDIRECTION_ENTRY_REG_BASE + 2 * index + 1

\* C30: after set_redirection_entry(i, e), redirection_entry(i) returns e:
\* the low 32 bits of e are in register 0x10 + 2i, the high 32 bits in
\* register 0x10 + 2i + 1, and no register of another index is written.
C30_RedirectionEntryRoundTrip ==
    /\ iohist.op = "set_redirection_entry" =>
          /\ ioapic.regs[IoLow(iohist.index)] = iohist.entry \cap U32Bits
          /\ ioapic.regs[IoHigh(iohist.index)] = ShiftRight(iohist.entry, 32)
          /\ \A r \in IoRegs \ {IoLow(iohist.index), IoHigh(iohist.index)} :
                ioapic.regs[r] = iohist.pre[r]
    /\ (iohist.op = "redirection_entry" /\ iohist.written[iohist.index].some) =>
          iohist.ret = iohist.written[iohist.index].val

\* What set_redirection_entry does: register 0x10 + 2i holds the high 32
\* bits of e, and every other register holds what it held.
SetWritesLowRegisterOnly ==
    iohist.op = "set_redirection_entry" =>
        /\ ioapic.regs[IoLow(iohist.index)] = ShiftRight(iohist.entry, 32)
        /\ \A r \in IoRegs \ {IoLow(iohist.index)} : ioapic.regs[r] = iohist.pre[r]

\* An entry whose halves differ was set.
SetWritesLowRegisterOnlyWitness ==
    /\ iohist.op = "set_redirection_entry"
    /\ iohist.entry = {0, 32, 63} /\ iohist.index = 1
    /\ ioapic.regs[IoLow(1)] = {0, 31}
    /\ ioapic.regs[IoHigh(1)] = {16}
(***************************************************************************)
(* The specifications.                                                     *)
(***************************************************************************)
InitPfa == PfaInit /\ MutexInit /\ GpaIdle /\ MapIdle /\ BumpIdle /\ AcpiIdle /\ UtilIdle /\ IoApicIdle

NextPfa == PfaNext

SpecPfa == InitPfa /\ [][NextPfa]_vars

InitMutex == MutexInit /\ PfaInit /\ GpaIdle /\ MapIdle /\ BumpIdle /\ AcpiIdle /\ UtilIdle /\ IoApicIdle

NextMutex == MutexNext

SpecMutex == InitMutex /\ [][NextMutex]_vars

InitGpa == GpaInit /\ MutexInit /\ PfaInit /\ MapIdle /\ BumpIdle /\ AcpiIdle /\ UtilIdle /\ IoApicIdle

NextGpa == GpaNext

SpecGpa == InitGpa /\ [][NextGpa]_vars

InitMap == MapInit /\ MutexInit /\ GpaIdle /\ BumpIdle /\ AcpiIdle /\ UtilIdle /\ IoApicIdle

NextMap == MapNext

SpecMap == InitMap /\ [][NextMap]_vars

InitMapConc == MapInit /\ MutexInit /\ GpaIdle /\ BumpIdle /\ AcpiIdle /\ UtilIdle /\ IoApicIdle

NextMapConc == MapConcNext

SpecMapConc == InitMapConc /\ [][NextMapConc]_vars

InitBump == BumpInit /\ PfaInit /\ MutexInit /\ GpaIdle /\ MapIdle /\ AcpiIdle /\ UtilIdle /\ IoApicIdle

NextBump == BumpNext

SpecBump == InitBump /\ [][NextBump]_vars

InitAcpi == AcpiInit /\ PfaInit /\ MutexInit /\ GpaIdle /\ MapIdle /\ BumpIdle /\ UtilIdle /\ IoApicIdle

NextAcpi == AcpiNext

SpecAcpi == InitAcpi /\ [][NextAcpi]_vars

NextMadtLive == MadtIterate

\* The loop that iterates calls next() again as long as it can.
SpecMadtLive == InitAcpi /\ [][NextMadtLive]_vars /\ WF_vars(MadtLoopNext)

InitIoApic == IoApicInit /\ PfaInit /\ MutexInit /\ GpaIdle /\ MapIdle /\ BumpIdle /\ AcpiIdle /\ UtilIdle

NextIoApic == IoApicNext

SpecIoApic == InitIoApic /\ [][NextIoApic]_vars

InitUtil == UtilInit /\ PfaInit /\ MutexInit /\ GpaIdle /\ MapIdle /\ BumpIdle /\ AcpiIdle /\ IoApicIdle

NextUtil == UtilNext

SpecUtil == InitUtil /\ [][NextUtil]_vars
====
